---- MODULE Spec2Model ----
(***************************************************************************)
(* A model of the gx-kanban core: the board codec (parseBoardMarkdown,     *)
(* serializeBoardMarkdown), card normalization, the BoardStore, and the    *)
(* SaveQueue / KanbanView.setViewData reload path.                         *)
(*                                                                         *)
(* Text is modelled one level above characters.  A single-line string is   *)
(* a sequence of whitespace-delimited words.  A line of a board file, and  *)
(* a line of a card description, is a record                               *)
(*     [ind, k, chk, id, w]                                                *)
(* ind: the number of leading indent levels (a level is two spaces or one  *)
(* tab); k: what the trimmed line is ("text", "card", "head", "anchor",    *)
(* "due", "astart", "aend"); chk/id/w: the checkbox letter, the bracketed  *)
(* id (or the date of a due:: line) and the words of the title or text.    *)
(* A multi-line string is the sequence of its lines, "" being <<>>.        *)
(***************************************************************************)
EXTENDS Integers, Sequences, FiniteSets, TLC

----------------------------------------------------------------------------
(* Bounds of the model *)

\* cards the store holds at most, columns and archive together
MaxCards == 2
\* columns the store holds at most
MaxCols == 2
\* lines of the body of an input text, after its first heading
MaxLines == 3
\* times one run writes the document back to the file
MaxSaves == 2
\* operations of one run that rewrite a title, a limit or the fields of a card
MaxEdits == 1
\* columns of the board whose columns are moved
MaxLanes == 4

----------------------------------------------------------------------------
(* Values *)

NULL == "<null>"

SeqToSet(s) == {s[i] : i \in DOMAIN s}

Min(a, b) == IF a < b THEN a ELSE b
Max(a, b) == IF a > b THEN a ELSE b

\* Array.prototype.filter
RECURSIVE FilterSeq(_, _)
FilterSeq(s, keep) ==
  IF s = <<>> THEN <<>>
  ELSE (IF Head(s) \in keep THEN <<Head(s)>> ELSE <<>>) \o FilterSeq(Tail(s), keep)

\* first index i with s[i] in hit, 0 when there is none (findIndex, 1-based)
FindIndex(s, hit) ==
  IF \E i \in DOMAIN s : s[i] \in hit
  THEN CHOOSE i \in DOMAIN s : s[i] \in hit /\ \A j \in 1..(i - 1) : s[j] \notin hit
  ELSE 0

\* s without its i-th element (splice(i, 1))
RemoveAt(s, i) == SubSeq(s, 1, i - 1) \o SubSeq(s, i + 1, Len(s))

\* s with the elements of xs inserted so that they start at 0-based index i (splice(i, 0, ...xs))
InsertAt(s, i, xs) == SubSeq(s, 1, i) \o xs \o SubSeq(s, i + 1, Len(s))

----------------------------------------------------------------------------
(* Words and lines *)

\* the word that stands for a run of spaces at the start or end of a string
WS == " "

\* String.prototype.toLowerCase on one word
LowerWord(w) ==
  CASE w = "Fix" -> "fix"
    [] w = "#A" -> "#a"
    [] w = "A" -> "a"
    [] OTHER -> w

\* tagRegex /(^|\s)#([A-Za-z0-9/_-]+)/ on one whitespace-delimited word: the tag
\* it yields, lower-cased, or NULL ("x#b" has no whitespace before its #)
TagOfWord(w) ==
  CASE w = "#a" -> "#a"
    [] w = "#A" -> "#a"
    [] w = "#b" -> "#b"
    [] w = "#zz" -> "#zz"
    [] OTHER -> NULL

\* every tag there is, in localeCompare order
TagOrder == <<"#a", "#b", "#zz">>

\* dueRegex /^\d{4}-\d{2}-\d{2}$/
MatchesDueRegex(s) == s \in {"2026-01-01", "2026-02-02", "2026-02-30"}

\* String.prototype.trim / trimEnd on a single-line string
RECURSIVE TrimStart(_)
TrimStart(w) == IF w # <<>> /\ Head(w) = WS THEN TrimStart(Tail(w)) ELSE w
RECURSIVE TrimEndW(_)
TrimEndW(w) ==
  IF w # <<>> /\ w[Len(w)] = WS THEN TrimEndW(SubSeq(w, 1, Len(w) - 1)) ELSE w
TrimW(w) == TrimEndW(TrimStart(w))

Line(ind, k, chk, id, w) == [ind |-> ind, k |-> k, chk |-> chk, id |-> id, w |-> w]
TextLine(ind, w) == Line(ind, "text", " ", "", w)
BlankLine == TextLine(0, <<>>)
AnchorLine(ind, id) == Line(ind, "anchor", " ", id, <<>>)
DueLine(ind, date) == Line(ind, "due", " ", date, <<>>)
CardLine(chk, id, w) == Line(0, "card", chk, id, w)
HeadLine(id, w) == Line(0, "head", " ", id, w)
ArchiveStartLine(ind) == Line(ind, "astart", " ", "", <<>>)
ArchiveEndLine(ind) == Line(ind, "aend", " ", "", <<>>)

\* line.trim() === ''
IsBlank(l) == l.k = "text" /\ TrimW(l.w) = <<>>

\* line.trim(): the line without its leading and trailing whitespace
TrimLine(l) == [l EXCEPT !.ind = 0, !.w = TrimW(l.w)]

\* split('\n') and join('\n') between a multi-line string and its lines
SplitLines(s) == IF s = <<>> THEN <<BlankLine>> ELSE s
JoinLines(ls) == IF ls = <<BlankLine>> THEN <<>> ELSE ls

\* String.prototype.trimEnd on a multi-line string
RECURSIVE TrimEndStr(_)
TrimEndStr(s) ==
  IF s = <<>> THEN <<>>
  ELSE IF IsBlank(s[Len(s)]) THEN TrimEndStr(SubSeq(s, 1, Len(s) - 1))
  ELSE [s EXCEPT ![Len(s)].w = TrimEndW(s[Len(s)].w)]

\* s.trim().length > 0
IsNonBlankStr(s) == \E i \in DOMAIN s : ~IsBlank(s[i])

----------------------------------------------------------------------------
(* Card normalization (model/card.ts) *)

\* the tags of the words ws
TagsOfWords(ws) == {TagOfWord(ws[i]) : i \in DOMAIN ws} \ {NULL}

\* the tags of the title alone
extractTagsOfTitle(title, description) == FilterSeq(TagOrder, TagsOfWords(title))

extractTags(title, description) ==
  LET found == TagsOfWords(title)
                 \cup UNION {TagsOfWords(description[i].w) : i \in DOMAIN description}
  IN FilterSeq(TagOrder, found)

normalizeDueDate(value) ==
  IF value = NULL \/ value = "" THEN NULL
  ELSE IF ~MatchesDueRegex(value) THEN NULL
  ELSE value

LowerWords(ws) == [i \in DOMAIN ws |-> LowerWord(ws[i])]

buildSearchText(title, description, tags, dueDate) ==
  [title |-> LowerWords(title),
   description |-> [i \in DOMAIN description |->
                      [description[i] EXCEPT !.w = LowerWords(description[i].w)]],
   tags |-> tags,
   due |-> IF dueDate = NULL THEN "" ELSE dueDate]

Card(id, title, description, checked, dueDate, tags, searchText) ==
  [id |-> id, title |-> title, description |-> description, checked |-> checked,
   dueDate |-> dueDate, tags |-> tags, searchText |-> searchText]

normalizeCard(input) ==
  LET dueDate == normalizeDueDate(input.dueDate)
      tags == extractTags(input.title, input.description)
  IN Card(input.id, input.title, input.description, input.checked, dueDate, tags,
          buildSearchText(input.title, input.description, tags, dueDate))

\* does the word start with # (startsWith('#'))
StartsWithHash(w) == w \in {"#a", "#A", "#b", "#zz"}

\* `#${w}`
WithHash(w) ==
  CASE w = "a" -> "#a"
    [] w = "b" -> "#b"
    [] OTHER -> "#?"

\* tag is one word, "" or a run of spaces
normalizeTagFilter(tag) ==
  LET normalized == IF tag = WS THEN "" ELSE LowerWord(tag)
  IN IF normalized = "" THEN ""
     ELSE IF StartsWithHash(normalized) THEN normalized
     ELSE WithHash(normalized)

----------------------------------------------------------------------------
(* Documents (model/types.ts) *)

\* JavaScript values a wipLimit can hold: null, a number v (f: plus one half),
\* NaN, Infinity, or something that is no number
JsNull == [t |-> "null", v |-> 0, f |-> FALSE]
JsNum(v) == [t |-> "num", v |-> v, f |-> FALSE]
JsFrac(v) == [t |-> "num", v |-> v, f |-> TRUE]
JsNaN == [t |-> "nan", v |-> 0, f |-> FALSE]
JsInf == [t |-> "inf", v |-> 0, f |-> FALSE]
JsStr == [t |-> "str", v |-> 0, f |-> FALSE]

\* typeof x === 'number'
IsNumber(x) == x.t \in {"num", "nan", "inf"}
\* x >= 0
GeZero(x) == (x.t = "num" /\ x.v >= 0) \/ x.t = "inf"
\* Math.floor(x)
Floor(x) == IF x.t = "num" THEN JsNum(x.v) ELSE x

Column(id, title, wipLimit, cards) ==
  [id |-> id, title |-> title, wipLimit |-> wipLimit, cards |-> cards]

Board(boardTitle, boardDescription, density, columns, archive) ==
  [boardTitle |-> boardTitle, boardDescription |-> boardDescription,
   density |-> density, columns |-> columns, archive |-> archive]

\* a default board that starts with one column
createDefaultBoardWithColumn(boardTitle) ==
  Board(boardTitle, <<>>, "normal", <<Column("todo", <<"Todo">>, JsNull, <<>>)>>, <<>>)

createDefaultBoard(boardTitle) == Board(boardTitle, <<>>, "normal", <<>>, <<>>)

\* the fields normalizeCard is given wherever the code rebuilds a card
CardInput(card) ==
  [id |-> card.id, title |-> card.title, description |-> card.description,
   checked |-> card.checked, dueDate |-> card.dueDate]

cloneCards(cards) == [i \in DOMAIN cards |-> normalizeCard(CardInput(cards[i]))]

cloneBoard(b) ==
  Board(b.boardTitle, b.boardDescription, b.density,
        [i \in DOMAIN b.columns |->
           Column(b.columns[i].id, b.columns[i].title,
                  IF IsNumber(b.columns[i].wipLimit) THEN b.columns[i].wipLimit ELSE JsNull,
                  cloneCards(b.columns[i].cards))],
        cloneCards(b.archive))

\* the ids of the columns, and of the cards of a list, in order
ColumnIds(b) == [i \in DOMAIN b.columns |-> b.columns[i].id]
CardIds(cards) == [i \in DOMAIN cards |-> cards[i].id]

\* columns.findIndex((column) => column.id === id), 1-based, 0 when absent
ColumnIndex(b, id) == FindIndex(ColumnIds(b), {id})
CardIndex(cards, id) == FindIndex(CardIds(cards), {id})

\* every card of the document: the columns' cards in order, then the archive
RECURSIVE FlattenCards(_)
FlattenCards(cols) ==
  IF cols = <<>> THEN <<>> ELSE Head(cols).cards \o FlattenCards(Tail(cols))
AllCards(b) == FlattenCards(b.columns) \o b.archive

----------------------------------------------------------------------------
(* BoardStore (state/BoardStore.ts): each operation as a function of the    *)
(* document it is applied to                                                *)

\* columns.map((column) => column.id === columnId ? change(column) : column)
MapColumn(b, columnId, change(_)) ==
  [b EXCEPT !.columns = [i \in DOMAIN b.columns |->
     IF b.columns[i].id = columnId THEN change(b.columns[i]) ELSE b.columns[i]]]

setBoardMetadataOf(b, boardTitle, boardDescription, density) ==
  [b EXCEPT !.boardTitle = IF TrimW(boardTitle) # <<>> THEN TrimW(boardTitle) ELSE b.boardTitle,
            !.boardDescription = TrimW(boardDescription),
            !.density = density]

addColumnOf(b, column) == [b EXCEPT !.columns = Append(b.columns, column)]

renameColumnOf(b, columnId, title) ==
  LET change(c) == [c EXCEPT !.title = IF TrimW(title) # <<>> THEN TrimW(title) ELSE c.title]
  IN MapColumn(b, columnId, change)

setColumnWipLimitOf(b, columnId, limit) ==
  LET change(c) ==
        [c EXCEPT !.wipLimit = IF IsNumber(limit) /\ GeZero(limit) THEN Floor(limit) ELSE JsNull]
  IN MapColumn(b, columnId, change)

deleteColumnOf(b, columnId) ==
  [b EXCEPT !.columns =
     FilterSeq(b.columns, {c \in SeqToSet(b.columns) : c.id # columnId})]

\* a moveColumn that lowers the index when the column moves to the right, as moveCard does
moveColumnShifted(b, sourceColumnId, targetIndex) ==
  LET sourceIndex == ColumnIndex(b, sourceColumnId)
      columns == RemoveAt(b.columns, sourceIndex)
      clamped == Max(0, Min(targetIndex, Len(columns)))
      nextIndex == IF sourceIndex - 1 < clamped THEN clamped - 1 ELSE clamped
  IN IF sourceIndex = 0 THEN b
     ELSE [b EXCEPT !.columns = InsertAt(columns, nextIndex, <<b.columns[sourceIndex]>>)]

moveColumnOf(b, sourceColumnId, targetIndex) ==
  LET sourceIndex == ColumnIndex(b, sourceColumnId)
      columns == RemoveAt(b.columns, sourceIndex)
      nextIndex == Max(0, Min(targetIndex, Len(columns)))
  IN IF sourceIndex = 0 THEN b
     ELSE [b EXCEPT !.columns = InsertAt(columns, nextIndex, <<b.columns[sourceIndex]>>)]

addCardOf(b, columnId, card, placement) ==
  LET change(c) ==
        [c EXCEPT !.cards = IF placement = "top" THEN <<card>> \o c.cards
                            ELSE Append(c.cards, card)]
  IN MapColumn(b, columnId, change)

\* an insertCardsFromParsedLines that puts a batch of two or more in one by one,
\* each ahead of (or behind) the cards put in so far, for 'before' in reverse order
insertCardsOneByOne(b, columnId, cards, position) ==
  LET reversed == [k \in DOMAIN cards |-> cards[Len(cards) + 1 - k]]
      change(c) ==
        [c EXCEPT !.cards = IF position = "before" THEN reversed \o c.cards ELSE c.cards \o cards]
  IN IF Len(cards) = 0 THEN b ELSE MapColumn(b, columnId, change)

insertCardsFromParsedLinesOf(b, columnId, cards, position) ==
  LET change(c) ==
        [c EXCEPT !.cards = IF position = "before" THEN cards \o c.cards ELSE c.cards \o cards]
  IN IF Len(cards) = 0 THEN b ELSE MapColumn(b, columnId, change)

insertCardsFromParsedLinesRet(b, columnId, cards, position) == Len(cards)

\* the updaters the model applies: each is a function from the card to the next card
ApplyUpdater(updater, card) ==
  CASE updater = "retitle" -> [card EXCEPT !.title = <<"#b">>]
    [] updater = "describe" -> [card EXCEPT !.description = <<TextLine(0, <<"Fix", "#A">>)>>]
    [] updater = "retag" ->
         [card EXCEPT !.description = <<TextLine(0, <<"#zz", "#a", "x#b">>)>>]
    [] updater = "untitle" -> [card EXCEPT !.title = <<"fix">>]
    [] updater = "check" -> [card EXCEPT !.checked = TRUE]
    [] updater = "due" -> [card EXCEPT !.dueDate = "2026-01-01"]
    [] updater = "baddue" -> [card EXCEPT !.dueDate = "02-20-2026"]
    [] OTHER -> card

updateCardOf(b, columnId, cardId, updater) ==
  LET change(c) ==
        [c EXCEPT !.cards = [k \in DOMAIN c.cards |->
           IF c.cards[k].id # cardId THEN c.cards[k]
           ELSE normalizeCard(CardInput(ApplyUpdater(updater, c.cards[k])))]]
  IN MapColumn(b, columnId, change)

\* a deleteCard that looks for the card in every column
deleteCardInEveryColumn(b, columnId, cardId) ==
  [b EXCEPT !.columns = [i \in DOMAIN b.columns |->
     [b.columns[i] EXCEPT !.cards =
        FilterSeq(b.columns[i].cards, {x \in SeqToSet(b.columns[i].cards) : x.id # cardId})]]]

deleteCardOf(b, columnId, cardId) ==
  LET change(c) ==
        [c EXCEPT !.cards = FilterSeq(c.cards, {x \in SeqToSet(c.cards) : x.id # cardId})]
  IN MapColumn(b, columnId, change)

\* columns.find((entry) => entry.id === columnId)?.cards || []
CardsOfColumn(b, columnId) ==
  IF ColumnIndex(b, columnId) = 0 THEN <<>> ELSE b.columns[ColumnIndex(b, columnId)].cards

EmptyColumn(c) == [c EXCEPT !.cards = <<>>]

clearColumnCardsRet(b, columnId) == Len(CardsOfColumn(b, columnId))

clearColumnCardsOf(b, columnId) ==
  IF clearColumnCardsRet(b, columnId) = 0 THEN b ELSE MapColumn(b, columnId, EmptyColumn)

archiveColumnCardsRet(b, columnId) == Len(CardsOfColumn(b, columnId))

\* an archiveColumnCards that puts the cards ahead of the archive's entries
archiveColumnCardsInFront(b, columnId) ==
  LET cardsToArchive == CardsOfColumn(b, columnId)
  IN IF Len(cardsToArchive) = 0 THEN b
     ELSE [MapColumn(b, columnId, EmptyColumn) EXCEPT !.archive = cardsToArchive \o b.archive]

archiveColumnCardsOf(b, columnId) ==
  LET cardsToArchive == CardsOfColumn(b, columnId)
  IN IF Len(cardsToArchive) = 0 THEN b
     ELSE [MapColumn(b, columnId, EmptyColumn) EXCEPT !.archive = b.archive \o cardsToArchive]

\* a moveCard that inserts the card and leaves it in its source column as well
moveCardCopying(b, sourceColumnId, cardId, targetColumnId, targetIndex) ==
  LET sourceColumnIndex == ColumnIndex(b, sourceColumnId)
      targetColumnIndex == ColumnIndex(b, targetColumnId)
  IN IF sourceColumnIndex = 0 \/ targetColumnIndex = 0 THEN b
     ELSE
       LET cardIndex == CardIndex(b.columns[sourceColumnIndex].cards, cardId)
       IN IF cardIndex = 0 \/ sourceColumnIndex = targetColumnIndex THEN b
          ELSE
            LET targetCards == b.columns[targetColumnIndex].cards
            IN [b EXCEPT !.columns[targetColumnIndex].cards =
                  InsertAt(targetCards, Max(0, Min(targetIndex, Len(targetCards))),
                           <<b.columns[sourceColumnIndex].cards[cardIndex]>>)]

\* a moveCard that clamps the index but never lowers it after the removal
moveCardUnshifted(b, sourceColumnId, cardId, targetColumnId, targetIndex) ==
  LET sourceColumnIndex == ColumnIndex(b, sourceColumnId)
      targetColumnIndex == ColumnIndex(b, targetColumnId)
  IN IF sourceColumnIndex = 0 \/ targetColumnIndex = 0 THEN b
     ELSE
       LET cardIndex == CardIndex(b.columns[sourceColumnIndex].cards, cardId)
       IN IF cardIndex = 0 THEN b
          ELSE
            LET card == b.columns[sourceColumnIndex].cards[cardIndex]
                removed == [b.columns EXCEPT ![sourceColumnIndex].cards =
                              RemoveAt(b.columns[sourceColumnIndex].cards, cardIndex)]
                targetCards == removed[targetColumnIndex].cards
                clamped == Max(0, Min(targetIndex, Len(targetCards)))
            IN [b EXCEPT !.columns =
                  [removed EXCEPT ![targetColumnIndex].cards =
                     InsertAt(targetCards, clamped, <<card>>)]]

moveCardOf(b, sourceColumnId, cardId, targetColumnId, targetIndex) ==
  LET sourceColumnIndex == ColumnIndex(b, sourceColumnId)
      targetColumnIndex == ColumnIndex(b, targetColumnId)
  IN IF sourceColumnIndex = 0 \/ targetColumnIndex = 0 THEN b
     ELSE
       LET cardIndex == CardIndex(b.columns[sourceColumnIndex].cards, cardId)
       IN IF cardIndex = 0 THEN b
          ELSE
            LET card == b.columns[sourceColumnIndex].cards[cardIndex]
                removed == [b.columns EXCEPT ![sourceColumnIndex].cards =
                              RemoveAt(b.columns[sourceColumnIndex].cards, cardIndex)]
                targetCards == removed[targetColumnIndex].cards
                clamped == Max(0, Min(targetIndex, Len(targetCards)))
                insertIndex == IF sourceColumnId = targetColumnId /\ cardIndex - 1 < clamped
                               THEN clamped - 1 ELSE clamped
            IN [b EXCEPT !.columns =
                  [removed EXCEPT ![targetColumnIndex].cards =
                     InsertAt(targetCards, insertIndex, <<card>>)]]

\* moveCard and moveColumn return before emit() when they find nothing to move
moveColumnEmits(b, sourceColumnId) == ColumnIndex(b, sourceColumnId) # 0

moveCardEmits(b, sourceColumnId, cardId, targetColumnId) ==
  /\ ColumnIndex(b, sourceColumnId) # 0
  /\ ColumnIndex(b, targetColumnId) # 0
  /\ CardIndex(b.columns[ColumnIndex(b, sourceColumnId)].cards, cardId) # 0

getBoardOf(b) == cloneBoard(b)

\* getCard: a copy of the card with a copy of its tags, or NULL
getCardOf(b, columnId, cardId) ==
  LET cards == CardsOfColumn(b, columnId)
  IN IF CardIndex(cards, cardId) = 0 THEN NULL ELSE cards[CardIndex(cards, cardId)]

Filter(query, tag) == [query |-> query, tag |-> tag]
EmptyFilter == Filter("", "")

\* word.includes(query), for the words and queries of the model
WordIncludes(word, query) ==
  \/ word = query
  \/ query = "a" /\ word \in {"#a", "x#a"}
  \/ query = "#a" /\ word = "x#a"

\* searchText.includes(query): query is one lower-cased word
SearchIncludes(searchText, query) ==
  \/ \E i \in DOMAIN searchText.title : WordIncludes(searchText.title[i], query)
  \/ \E i \in DOMAIN searchText.description :
       \E j \in DOMAIN searchText.description[i].w :
         WordIncludes(searchText.description[i].w[j], query)
  \/ \E i \in DOMAIN searchText.tags : WordIncludes(searchText.tags[i], query)
  \/ WordIncludes(searchText.due, query)

\* this.filter.query.trim().toLowerCase(): the query is one word, "" or a run of spaces
QueryOf(filter) == IF filter.query = WS THEN "" ELSE LowerWord(filter.query)

FilterIsActive(filter) == QueryOf(filter) # "" \/ normalizeTagFilter(filter.tag) # ""

\* a predicate that looks at the query only
CardIsVisibleByQuery(card, filter) ==
  QueryOf(filter) # "" => SearchIncludes(card.searchText, QueryOf(filter))

\* the predicate of column.cards.filter(...) in getSnapshot
CardIsVisible(card, filter) ==
  /\ QueryOf(filter) # "" => SearchIncludes(card.searchText, QueryOf(filter))
  /\ normalizeTagFilter(filter.tag) # "" => normalizeTagFilter(filter.tag) \in SeqToSet(card.tags)

\* the indices, in order, of the cards of a list that pass the filter
VisibleIndices(cards, filter) ==
  FilterSeq([k \in DOMAIN cards |-> k],
            {k \in DOMAIN cards : CardIsVisible(cards[k], filter)})

\* sortUnique(columns.flatMap((column) => column.cards.flatMap((card) => card.tags)))
allTagsOf(b) ==
  FilterSeq(TagOrder,
            UNION {SeqToSet(FlattenCards(b.columns)[i].tags) : i \in DOMAIN FlattenCards(b.columns)})

visibleColumnsOf(b, filter) ==
  IF ~FilterIsActive(filter) THEN getBoardOf(b).columns
  ELSE [i \in DOMAIN b.columns |->
          [b.columns[i] EXCEPT !.cards =
             [k \in DOMAIN VisibleIndices(b.columns[i].cards, filter) |->
                b.columns[i].cards[VisibleIndices(b.columns[i].cards, filter)[k]]]]]

getSnapshot(b, filter) ==
  [board |-> getBoardOf(b), filter |-> filter,
   visibleColumns |-> visibleColumnsOf(b, filter), allTags |-> allTagsOf(b)]

\* Which card object of the store the k-th card of visibleColumns[ci] is: with an
\* active filter the filtered array holds the store's own card objects (its index
\* in the store's column), with no filter it is an object of a clone (0).
VisibleCardAlias(b, filter, ci, k) ==
  IF ~FilterIsActive(filter) THEN 0 ELSE VisibleIndices(b.columns[ci].cards, filter)[k]

----------------------------------------------------------------------------
(* The board file (model/parse.ts, model/serialize.ts) *)

(* A board file is [fm, body]: fm is what the text between the --- fences is to
   the YAML library, body the lines after the closing fence.  fm.kind is "none"
   (no fenced block), "badyaml" (the library throws), "scalar" (not an object) or
   "map" (an object, with the fields below).  A field that holds a string is
   [t |-> "str", w |-> its words], any other value [t |-> "none", w |-> <<>>]. *)
YStr(w) == [t |-> "str", w |-> w]
YNone == [t |-> "none", w |-> <<>>]

ColumnEntry(id, title, wipLimit) == [obj |-> TRUE, id |-> id, title |-> title, wipLimit |-> wipLimit]

Frontmatter(kind, kanban, boardTitle, boardDescription, density, columns) ==
  [kind |-> kind, kanban |-> kanban, kanbanVersion |-> 1, boardTitle |-> boardTitle,
   boardDescription |-> boardDescription, density |-> density, columns |-> columns]

\* columns: [arr |-> is it an array, items |-> its entries]
YArray(items) == [arr |-> TRUE, items |-> items]
YNoArray == [arr |-> FALSE, items |-> <<>>]

FileText(fm, body) == [fm |-> fm, body |-> body]

\* ids createId returns, in the order of the calls
GenIds == <<"g1", "g2", "g3", "g4", "g5", "g6", "g7", "g8">>
createId(gen) == GenIds[gen + 1]

\* headingRegex and cardRegex match at the first character of the line
MatchesHeadingRegex(l) == l.k = "head" /\ l.ind = 0
MatchesCardRegex(l) == l.k = "card" /\ l.ind = 0

\* nextLine.replace(/^( {2}|\t)/, '')
StripIndent(l) == IF l.ind > 0 THEN [l EXCEPT !.ind = l.ind - 1] ELSE l

\* nextLine.trim() === '' || nextLine.startsWith('  ') || nextLine.startsWith('\t')
IsContinuation(l) == IsBlank(l) \/ l.ind > 0

\* a failed parse and a parsed document; gen counts the createId calls so far
ParseError(message, gen) ==
  [ok |-> FALSE, error |-> message, board |-> createDefaultBoard(<<>>), gen |-> gen]
Parsed(b, gen) == [ok |-> TRUE, error |-> "", board |-> b, gen |-> gen]

MissingFrontmatter == "Kanban board is missing YAML frontmatter."
InvalidYaml == "Kanban frontmatter could not be parsed as YAML."
NotAnObject == "Kanban frontmatter must be a YAML object."
\* the message quotes kanban: true in backquotes, written here as single quotes
MissingKanbanTrue == "File frontmatter is missing 'kanban: true'."

\* error.message.includes('`kanban: true`'), for the messages above
MentionsKanbanTrue(message) ==
  CASE message = MissingFrontmatter -> FALSE
    [] message = InvalidYaml -> FALSE
    [] message = NotAnObject -> FALSE
    [] message = MissingKanbanTrue -> TRUE
    [] OTHER -> FALSE

\* a splitFrontmatter that hands on whatever the YAML library returned
splitFrontmatterAnyValue(content) ==
  CASE content.fm.kind = "none" -> MissingFrontmatter
    [] content.fm.kind = "badyaml" -> InvalidYaml
    [] OTHER -> ""

\* splitFrontmatter: the message it throws, "" when it returns
splitFrontmatterError(content) ==
  CASE content.fm.kind = "none" -> MissingFrontmatter
    [] content.fm.kind = "badyaml" -> InvalidYaml
    [] content.fm.kind = "scalar" -> NotAnObject
    [] OTHER -> ""

parseDensity(value) == IF value = "compact" THEN "compact" ELSE "normal"

\* a parseWipLimit that rounds down and keeps what it gets
parseWipLimitFloorOnly(value) ==
  IF ~IsNumber(value) \/ value.t = "nan" THEN JsNull ELSE Floor(value)

parseWipLimit(value) ==
  IF ~IsNumber(value) \/ value.t = "nan" THEN JsNull
  ELSE IF GeZero(Floor(value)) THEN Floor(value) ELSE JsNull

\* the definitions of the entries that are objects with a non-blank id and title
RECURSIVE parseColumnDefinitions(_)
parseColumnDefinitions(value) ==
  IF ~value.arr \/ value.items = <<>> THEN <<>>
  ELSE LET entry == Head(value.items)
           id == IF entry.id.t = "str" THEN TrimW(entry.id.w) ELSE <<>>
           title == IF entry.title.t = "str" THEN TrimW(entry.title.w) ELSE <<>>
           rest == parseColumnDefinitions(YArray(Tail(value.items)))
       IN IF ~entry.obj \/ id = <<>> \/ title = <<>> THEN rest
          ELSE <<[id |-> id[1], title |-> title, wipLimit |-> parseWipLimit(entry.wipLimit)]>>
                 \o rest

\* the lines without their trailing blank lines
RECURSIVE PopBlankLines(_)
PopBlankLines(lines) ==
  IF lines # <<>> /\ IsBlank(lines[Len(lines)])
  THEN PopBlankLines(SubSeq(lines, 1, Len(lines) - 1))
  ELSE lines

\* the loop of normalizeDescription over the lines, dueDate being the date found so far
RECURSIVE ScanDescription(_, _)
ScanDescription(lines, dueDate) ==
  IF lines = <<>> THEN [bodyLines |-> <<>>, dueDate |-> dueDate]
  ELSE IF Head(lines).k = "anchor" THEN ScanDescription(Tail(lines), dueDate)
  ELSE IF dueDate = NULL /\ Head(lines).k = "due"
       THEN ScanDescription(Tail(lines), normalizeDueDate(Head(lines).id))
  ELSE LET rest == ScanDescription(Tail(lines), dueDate)
       IN [rest EXCEPT !.bodyLines = <<Head(lines)>> \o @]

\* a normalizeDescription that takes the first date and leaves out every due line
RECURSIVE WithoutDueLines(_)
WithoutDueLines(lines) ==
  IF lines = <<>> THEN <<>>
  ELSE IF Head(lines).k = "due" THEN WithoutDueLines(Tail(lines))
  ELSE <<Head(lines)>> \o WithoutDueLines(Tail(lines))
normalizeDescriptionDroppingDues(rawLines) ==
  LET scanned == ScanDescription(PopBlankLines(rawLines), NULL)
  IN [description |-> TrimEndStr(JoinLines(WithoutDueLines(scanned.bodyLines))),
      dueDate |-> scanned.dueDate]

normalizeDescription(rawLines) ==
  LET scanned == ScanDescription(PopBlankLines(rawLines), NULL)
  IN [description |-> TrimEndStr(JoinLines(scanned.bodyLines)), dueDate |-> scanned.dueDate]

\* the continuation lines at the start of lines, each without one indent
RECURSIVE TakeContinuation(_)
TakeContinuation(lines) ==
  IF lines = <<>> THEN <<>>
  ELSE IF MatchesCardRegex(Head(lines)) \/ MatchesHeadingRegex(Head(lines)) THEN <<>>
  ELSE IF IsContinuation(Head(lines))
       THEN <<StripIndent(Head(lines))>> \o TakeContinuation(Tail(lines))
  ELSE <<>>

\* [cards, gen]: the cards of the lines, and the createId calls made
RECURSIVE parseCardsFromLines(_, _)
parseCardsFromLines(lines, gen) ==
  IF lines = <<>> THEN [cards |-> <<>>, gen |-> gen]
  ELSE IF ~MatchesCardRegex(Head(lines)) THEN parseCardsFromLines(Tail(lines), gen)
  ELSE LET line == Head(lines)
           descriptionLines == TakeContinuation(Tail(lines))
           generated == line.id = ""
           cardId == IF generated THEN createId(gen) ELSE line.id
           normalized == normalizeDescription(descriptionLines)
           rest == parseCardsFromLines(
                     SubSeq(lines, Len(descriptionLines) + 2, Len(lines)),
                     IF generated THEN gen + 1 ELSE gen)
       IN [cards |-> <<normalizeCard([id |-> cardId,
                                      title |-> TrimW(line.w),
                                      description |-> normalized.description,
                                      checked |-> line.chk \in {"x", "X"},
                                      dueDate |-> normalized.dueDate])>> \o rest.cards,
           gen |-> rest.gen]

\* the lines before the next heading
RECURSIVE TakeSection(_)
TakeSection(lines) ==
  IF lines = <<>> \/ MatchesHeadingRegex(Head(lines)) THEN <<>>
  ELSE <<Head(lines)>> \o TakeSection(Tail(lines))

\* [columns, gen]: the sections of the body, each [id, title, cards]
RECURSIVE parseColumnsFromBody(_, _)
parseColumnsFromBody(lines, gen) ==
  IF lines = <<>> THEN [columns |-> <<>>, gen |-> gen]
  ELSE IF ~MatchesHeadingRegex(Head(lines)) THEN parseColumnsFromBody(Tail(lines), gen)
  ELSE LET line == Head(lines)
           sectionLines == TakeSection(Tail(lines))
           generated == line.id = ""
           parsedCards == parseCardsFromLines(sectionLines, IF generated THEN gen + 1 ELSE gen)
           rest == parseColumnsFromBody(SubSeq(lines, Len(sectionLines) + 2, Len(lines)),
                                        parsedCards.gen)
       IN [columns |-> <<[id |-> IF generated THEN createId(gen) ELSE line.id,
                          title |-> IF TrimW(line.w) = <<>> THEN <<"Untitled">>
                                    ELSE TrimW(line.w),
                          cards |-> parsedCards.cards]>> \o rest.columns,
           gen |-> rest.gen]

\* archiveBlockRegex: the first start marker and the first end marker after it
ArchiveStartIndex(lines) == FindIndex(lines, {l \in SeqToSet(lines) : l.k = "astart"})
ArchiveEndIndex(lines) ==
  LET from == ArchiveStartIndex(lines)
      tail == SubSeq(lines, from + 1, Len(lines))
      found == FindIndex(tail, {l \in SeqToSet(tail) : l.k = "aend"})
  IN IF from = 0 \/ found = 0 THEN 0 ELSE from + found

\* [bodyWithoutArchive, archive, gen]
extractArchiveSection(lines, gen) ==
  LET from == ArchiveStartIndex(lines)
      to == ArchiveEndIndex(lines)
      \* what the lines of the two markers hold before the marker
      before == TextLine(lines[from].ind, <<>>)
      inner == SubSeq(lines, from + 1, to - 1)
                 \o (IF lines[to].ind > 0 THEN <<TextLine(lines[to].ind, <<>>)>> ELSE <<>>)
      parsedCards == parseCardsFromLines(SplitLines(inner), gen)
  IN IF to = 0 THEN [bodyWithoutArchive |-> lines, archive |-> <<>>, gen |-> gen]
     ELSE [bodyWithoutArchive |-> SubSeq(lines, 1, from - 1) \o <<before>>
                                    \o SubSeq(lines, to + 1, Len(lines)),
           archive |-> parsedCards.cards,
           gen |-> parsedCards.gen]

\* the last section of fromBody with the id (new Map keeps the last entry of a key)
LastWithId(fromBody, id) ==
  LET hits == {i \in DOMAIN fromBody : fromBody[i].id = id}
  IN IF hits = {} THEN 0 ELSE CHOOSE i \in hits : \A j \in hits : j <= i

\* a merge that lists the columns in body order and the header's other columns last
mergeColumnsBodyFirst(fromFrontmatter, fromBody) ==
  LET inBody == {fromBody[i].id : i \in DOMAIN fromBody}
      wipOf(id) ==
        IF \E i \in DOMAIN fromFrontmatter : fromFrontmatter[i].id = id
        THEN fromFrontmatter[CHOOSE i \in DOMAIN fromFrontmatter : fromFrontmatter[i].id = id].wipLimit
        ELSE JsNull
      absent == FilterSeq(fromFrontmatter, {d \in SeqToSet(fromFrontmatter) : d.id \notin inBody})
  IN [i \in DOMAIN fromBody |->
        Column(fromBody[i].id, fromBody[i].title, wipOf(fromBody[i].id), fromBody[i].cards)]
       \o [i \in DOMAIN absent |-> Column(absent[i].id, absent[i].title, absent[i].wipLimit, <<>>)]

mergeColumns(fromFrontmatter, fromBody) ==
  LET seen == {fromFrontmatter[i].id : i \in DOMAIN fromFrontmatter}
      declared == [i \in DOMAIN fromFrontmatter |->
                     Column(fromFrontmatter[i].id, fromFrontmatter[i].title,
                            fromFrontmatter[i].wipLimit,
                            IF LastWithId(fromBody, fromFrontmatter[i].id) = 0 THEN <<>>
                            ELSE fromBody[LastWithId(fromBody, fromFrontmatter[i].id)].cards)]
      undeclared == FilterSeq(fromBody, {c \in SeqToSet(fromBody) : c.id \notin seen})
  IN declared \o [i \in DOMAIN undeclared |->
                    Column(undeclared[i].id, undeclared[i].title, JsNull, undeclared[i].cards)]

parseBoardMarkdown(content, gen) ==
  IF splitFrontmatterError(content) # "" THEN ParseError(splitFrontmatterError(content), gen)
  ELSE IF content.fm.kanban # TRUE THEN ParseError(MissingKanbanTrue, gen)
  ELSE
    LET frontmatter == content.fm
        boardTitle == IF frontmatter.boardTitle.t = "str" /\ TrimW(frontmatter.boardTitle.w) # <<>>
                      THEN TrimW(frontmatter.boardTitle.w)
                      ELSE <<"Untitled", "Kanban">>
        boardDescription == IF frontmatter.boardDescription.t = "str"
                            THEN TrimW(frontmatter.boardDescription.w) ELSE <<>>
        density == parseDensity(frontmatter.density)
        frontmatterColumns == parseColumnDefinitions(frontmatter.columns)
        extracted == extractArchiveSection(content.body, gen)
        bodyColumns == parseColumnsFromBody(extracted.bodyWithoutArchive, extracted.gen)
        columns == mergeColumns(frontmatterColumns, bodyColumns.columns)
    IN IF columns = <<>>
       THEN Parsed([createDefaultBoard(boardTitle) EXCEPT
                      !.boardDescription = boardDescription,
                      !.density = density,
                      !.archive = extracted.archive],
                   bodyColumns.gen)
       ELSE Parsed(Board(boardTitle, boardDescription, density, columns, extracted.archive),
                   bodyColumns.gen)

\* serialize.ts normalizeColumns
normalizeColumns(b) ==
  [i \in DOMAIN b.columns |->
     ColumnEntry(YStr(<<b.columns[i].id>>), YStr(b.columns[i].title),
                 IF IsNumber(b.columns[i].wipLimit) /\ GeZero(b.columns[i].wipLimit)
                 THEN b.columns[i].wipLimit ELSE JsNull)]

buildFrontmatter(b) ==
  Frontmatter("map", TRUE, YStr(b.boardTitle),
              IF b.boardDescription # <<>> THEN YStr(b.boardDescription) ELSE YNone,
              b.density, YArray(normalizeColumns(b)))

\* `  ${line}`
Indent(l) == [l EXCEPT !.ind = @ + 1]

serializeCard(card) ==
  LET normalized == normalizeCard([id |-> card.id, title |-> TrimW(card.title),
                                   description |-> card.description,
                                   checked |-> card.checked,
                                   dueDate |-> normalizeDueDate(card.dueDate)])
      descriptionChunks ==
        (IF IsNonBlankStr(normalized.description)
         THEN SplitLines(TrimEndStr(normalized.description)) ELSE <<>>)
        \o (IF normalized.dueDate # NULL THEN <<DueLine(0, normalized.dueDate)>> ELSE <<>>)
  IN <<CardLine(IF normalized.checked THEN "x" ELSE " ", normalized.id, normalized.title),
       AnchorLine(1, normalized.id)>>
     \o [i \in DOMAIN descriptionChunks |-> Indent(descriptionChunks[i])]
     \o <<BlankLine>>

RECURSIVE serializeCards(_)
serializeCards(cards) ==
  IF cards = <<>> THEN <<>> ELSE serializeCard(Head(cards)) \o serializeCards(Tail(cards))

\* an archive block that is never closed
serializeArchiveUnclosed(archive) ==
  IF archive = <<>> THEN <<>>
  ELSE <<BlankLine, ArchiveStartLine(0), BlankLine>> \o serializeCards(archive)

serializeArchive(archive) ==
  IF archive = <<>> THEN <<>>
  ELSE <<BlankLine, ArchiveStartLine(0), BlankLine>> \o serializeCards(archive)
         \o <<ArchiveEndLine(0), BlankLine>>

RECURSIVE serializeColumns(_)
serializeColumns(columns) ==
  IF columns = <<>> THEN <<>>
  ELSE <<HeadLine(Head(columns).id, Head(columns).title), BlankLine>>
         \o serializeCards(Head(columns).cards) \o <<BlankLine>>
         \o serializeColumns(Tail(columns))

\* while (lines[lines.length - 1] === '') lines.pop()
RECURSIVE PopEmptyLines(_)
PopEmptyLines(lines) ==
  IF lines # <<>> /\ lines[Len(lines)] = BlankLine
  THEN PopEmptyLines(SubSeq(lines, 1, Len(lines) - 1))
  ELSE lines

\* the text: the fenced frontmatter, then the lines, then a final newline
serializeBoardMarkdown(b) ==
  FileText(buildFrontmatter(b),
           PopEmptyLines(<<BlankLine>> \o serializeColumns(b.columns) \o serializeArchive(b.archive))
             \o <<BlankLine>>)

----------------------------------------------------------------------------
(* The store as a state machine *)

VARIABLES
  board,       \* BoardStore.board
  filter,      \* BoardStore.filter
  listeners,   \* BoardStore.listeners
  delivered,   \* per listener, the snapshots it was called with by the last operation
  ret,         \* what the last operation returned
  edits,       \* how many operations so far rewrote a title, a limit or a card's fields
  op           \* the last operation called: its name, and whether every id it named was found

storeVars == <<board, filter, listeners, delivered, ret, edits, op>>

ListenerIds == {"L1", "L2"}

\* what an operation returns: nothing (or null), a number, or a card
RetVoid == [kind |-> "void", num |-> 0, card |-> <<>>]
RetNum(n) == [kind |-> "num", num |-> n, card |-> <<>>]
RetCard(card) == [kind |-> "card", num |-> 0, card |-> <<card>>]

NoCalls == [l \in ListenerIds |-> <<>>]

\* an emit that stops after the first listener
emitToOne(b, f, ls) ==
  [l \in ListenerIds |->
     IF l \in ls /\ l = CHOOSE x \in ls : TRUE THEN <<getSnapshot(b, f)>> ELSE <<>>]

\* an emit that also calls the listeners that are not in the set
emitToEveryone(b, f, ls) == [l \in ListenerIds |-> <<getSnapshot(b, f)>>]

\* emit(): one snapshot, handed to every listener of the set
emit(b, f, ls) == [l \in ListenerIds |-> IF l \in ls THEN <<getSnapshot(b, f)>> ELSE <<>>]

\* the final part of a mutation: the new document, emit(), the return value
Mutate(nextBoard, value) ==
  /\ board' = nextBoard
  /\ delivered' = emit(nextBoard, filter, listeners)
  /\ ret' = value
  /\ UNCHANGED <<filter, listeners>>

\* an operation that returned before it changed or emitted anything
EarlyReturn(value) ==
  /\ ret' = value
  /\ delivered' = NoCalls
  /\ UNCHANGED <<board, filter, listeners>>

\* a filter setter that keeps in the document only the cards the filter shows
SetFilterDroppingHidden(nextFilter) ==
  /\ filter' = nextFilter
  /\ board' = [board EXCEPT !.columns = visibleColumnsOf(board, nextFilter)]
  /\ delivered' = emit(board', nextFilter, listeners)
  /\ ret' = RetVoid
  /\ UNCHANGED <<listeners, edits>>

SetFilter(nextFilter) ==
  /\ filter' = nextFilter
  /\ delivered' = emit(board, nextFilter, listeners)
  /\ ret' = RetVoid
  /\ UNCHANGED <<board, listeners, edits>>

Called(name, known) == op' = [name |-> name, known |-> known]

\* does the document hold the column, and the column the card
KnownColumn(b, columnId) == ColumnIndex(b, columnId) # 0
KnownCard(b, columnId, cardId) ==
  KnownColumn(b, columnId) /\ CardIndex(CardsOfColumn(b, columnId), cardId) # 0

\* the model lets at most MaxEdits operations rewrite a field of the document
Rewrites(nextBoard) ==
  /\ nextBoard # board => edits < MaxEdits
  /\ edits' = IF nextBoard # board THEN edits + 1 ELSE edits

(* Inputs *)

\* tests/store.test.ts makeCard
MkCard(id, title) ==
  normalizeCard([id |-> id, title |-> title, description |-> <<>>, checked |-> FALSE,
                 dueDate |-> NULL])

CardTitles == <<(<<"fix">>), (<<"Fix", "#A">>), (<<"#b">>)>>
CardIdPool == <<"c1", "c2", "c3", "c4", "c5", "c6">>
PoolIndex(id) == CHOOSE k \in DOMAIN CardIdPool : CardIdPool[k] = id
TitleOfId(id) == CardTitles[((PoolIndex(id) - 1) % Len(CardTitles)) + 1]
FreshCard(id) == MkCard(id, TitleOfId(id))

\* a Card object whose tags and searchText were not derived from its title
StaleCard(id) ==
  [MkCard(id, <<"fix">>) EXCEPT !.tags = <<"#zz">>,
                                !.searchText = buildSearchText(<<"old">>, <<>>, <<"#zz">>, NULL)]

\* the board a store is constructed with: lane A with the first n cards, lane B empty
StartBoard(n) ==
  Board(<<"Board">>, <<>>, "normal",
        <<Column("A", <<"Todo">>, JsNull, [k \in 1..n |-> FreshCard(CardIdPool[k])]),
          Column("B", <<"Done">>, JsNull, <<>>)>>,
        <<>>)

StartBoards == {StartBoard(n) : n \in 0..MaxCards}

KnownCardIds == {CardIdPool[k] : k \in 1..MaxCards}
ColumnIdArgs == {"A", "B", "Z"}
CardIdArgs == KnownCardIds \cup {"zz"}
IndexArgs == (0 - 1)..(MaxCards + 1)
Placements == {"top", "bottom"}
Positions == {"before", "after"}

NewColumns == {Column("B", <<"Done">>, JsNull, <<>>)}
NewCards == {FreshCard(id) : id \in KnownCardIds} \cup {StaleCard(CardIdPool[MaxCards])}
Batches ==
  {<<>>, <<FreshCard(CardIdPool[MaxCards])>>,
   [k \in 1..MaxCards |-> FreshCard(CardIdPool[k])]}
\* moveCard's arguments: every combination of present ids with every index, and
\* every combination that names an absent id
MoveCardArgs ==
  {a \in ColumnIdArgs \X CardIdArgs \X ColumnIdArgs \X IndexArgs :
     (a[1] = "Z" \/ a[2] = "zz" \/ a[3] = "Z") => a[4] = 0}
Updaters == {"retitle", "baddue"}
WipLimitArgs == {JsNum(2), JsFrac(0 - 1), JsStr}
QueryArgs == {"", WS, "Fix"}
TagArgs == {"", "A"}
ColumnTitleArgs == {<<>>, <<"Later">>}

CardCount(b) == Len(AllCards(b))
PresentCardIds(b) == SeqToSet(CardIds(AllCards(b)))

\* createId never repeats: the cards a caller adds carry ids the document does not hold
AreFresh(b, cards) ==
  /\ SeqToSet(CardIds(cards)) \cap PresentCardIds(b) = {}
  /\ Cardinality(SeqToSet(CardIds(cards))) = Len(cards)
  /\ CardCount(b) + Len(cards) <= MaxCards

(* Operations *)

SetBoard(b) == Mutate(cloneBoard(b), RetVoid) /\ UNCHANGED edits /\ Called("setBoard", TRUE)

SetFilterQuery(query) ==
  SetFilter([filter EXCEPT !.query = query]) /\ Called("setFilterQuery", TRUE)

SetFilterTag(tag) ==
  SetFilter([filter EXCEPT !.tag = normalizeTagFilter(tag)]) /\ Called("setFilterTag", TRUE)

ClearFilter == SetFilter(EmptyFilter) /\ Called("clearFilter", TRUE)

SetBoardMetadata(boardTitle, boardDescription, density) ==
  /\ Rewrites(setBoardMetadataOf(board, boardTitle, boardDescription, density))
  /\ Mutate(setBoardMetadataOf(board, boardTitle, boardDescription, density), RetVoid)
  /\ Called("setBoardMetadata", TRUE)

AddColumn(column) ==
  /\ Len(board.columns) < MaxCols
  /\ column.id \notin SeqToSet(ColumnIds(board))
  /\ Mutate(addColumnOf(board, column), RetVoid)
  /\ UNCHANGED edits
  /\ Called("addColumn", TRUE)

RenameColumn(columnId, title) ==
  /\ Rewrites(renameColumnOf(board, columnId, title))
  /\ Mutate(renameColumnOf(board, columnId, title), RetVoid)
  /\ Called("renameColumn", KnownColumn(board, columnId))

SetColumnWipLimit(columnId, limit) ==
  /\ Rewrites(setColumnWipLimitOf(board, columnId, limit))
  /\ Mutate(setColumnWipLimitOf(board, columnId, limit), RetVoid)
  /\ Called("setColumnWipLimit", KnownColumn(board, columnId))

DeleteColumn(columnId) ==
  /\ Mutate(deleteColumnOf(board, columnId), RetVoid)
  /\ UNCHANGED edits
  /\ Called("deleteColumn", KnownColumn(board, columnId))

MoveColumn(sourceColumnId, targetIndex) ==
  /\ IF moveColumnEmits(board, sourceColumnId)
     THEN Mutate(moveColumnOf(board, sourceColumnId, targetIndex), RetVoid)
     ELSE EarlyReturn(RetVoid)
  /\ UNCHANGED edits
  /\ Called("moveColumn", KnownColumn(board, sourceColumnId))

AddCard(columnId, card, placement) ==
  /\ AreFresh(board, <<card>>)
  /\ Mutate(addCardOf(board, columnId, card, placement), RetVoid)
  /\ UNCHANGED edits
  /\ Called("addCard", KnownColumn(board, columnId))

InsertCardsFromParsedLines(columnId, cards, position) ==
  /\ AreFresh(board, cards)
  /\ IF Len(cards) = 0 THEN EarlyReturn(RetNum(0))
     ELSE Mutate(insertCardsFromParsedLinesOf(board, columnId, cards, position),
                 RetNum(insertCardsFromParsedLinesRet(board, columnId, cards, position)))
  /\ UNCHANGED edits
  /\ Called("insertCardsFromParsedLines", KnownColumn(board, columnId))

GetCard(columnId, cardId) ==
  /\ EarlyReturn(IF KnownCard(board, columnId, cardId)
                 THEN RetCard(getCardOf(board, columnId, cardId)) ELSE RetVoid)
  /\ UNCHANGED edits
  /\ Called("getCard", KnownCard(board, columnId, cardId))

UpdateCard(columnId, cardId, updater) ==
  /\ Rewrites(updateCardOf(board, columnId, cardId, updater))
  /\ Mutate(updateCardOf(board, columnId, cardId, updater), RetVoid)
  /\ Called("updateCard", KnownCard(board, columnId, cardId))

DeleteCard(columnId, cardId) ==
  /\ Mutate(deleteCardOf(board, columnId, cardId), RetVoid)
  /\ UNCHANGED edits
  /\ Called("deleteCard", KnownCard(board, columnId, cardId))

ClearColumnCards(columnId) ==
  /\ IF clearColumnCardsRet(board, columnId) = 0 THEN EarlyReturn(RetNum(0))
     ELSE Mutate(clearColumnCardsOf(board, columnId),
                 RetNum(clearColumnCardsRet(board, columnId)))
  /\ UNCHANGED edits
  /\ Called("clearColumnCards", KnownColumn(board, columnId))

ArchiveColumnCards(columnId) ==
  /\ IF archiveColumnCardsRet(board, columnId) = 0 THEN EarlyReturn(RetNum(0))
     ELSE Mutate(archiveColumnCardsOf(board, columnId),
                 RetNum(archiveColumnCardsRet(board, columnId)))
  /\ UNCHANGED edits
  /\ Called("archiveColumnCards", KnownColumn(board, columnId))

MoveCard(sourceColumnId, cardId, targetColumnId, targetIndex) ==
  /\ IF moveCardEmits(board, sourceColumnId, cardId, targetColumnId)
     THEN Mutate(moveCardOf(board, sourceColumnId, cardId, targetColumnId, targetIndex), RetVoid)
     ELSE EarlyReturn(RetVoid)
  /\ UNCHANGED edits
  /\ Called("moveCard", KnownCard(board, sourceColumnId, cardId)
                         /\ KnownColumn(board, targetColumnId))

Subscribe(l) ==
  /\ l \notin listeners
  /\ listeners' = listeners \cup {l}
  /\ delivered' = [x \in ListenerIds |-> IF x = l THEN <<getSnapshot(board, filter)>> ELSE <<>>]
  /\ ret' = RetVoid
  /\ UNCHANGED <<board, filter, edits>>
  /\ Called("subscribe", TRUE)

Unsubscribe(l) ==
  /\ l \in listeners
  /\ listeners' = listeners \ {l}
  /\ delivered' = NoCalls
  /\ ret' = RetVoid
  /\ UNCHANGED <<board, filter, edits>>
  /\ Called("unsubscribe", TRUE)

(* A holder of a value the store handed out writes to it in place *)

HandedSources == {"getBoard", "getCard", "snapshot.board", "snapshot.visibleColumns"}

\* the cards of column ci of the value the caller got from source
HandedCards(source, ci) ==
  IF source = "snapshot.visibleColumns" THEN visibleColumnsOf(board, filter)[ci].cards
  ELSE getBoardOf(board).columns[ci].cards

\* the index, in the store's column ci, of the store's card object that the k-th
\* handed card is, or 0 when the handed card is a copy
HandedCardAlias(source, ci, k) ==
  IF source = "snapshot.visibleColumns" THEN VisibleCardAlias(board, filter, ci, k) ELSE 0

HackedTitle == <<"x#a">>

\* what handed.columns[ci].cards[k].title = HackedTitle does to the store's document
callerWritesTitleOf(source, ci, k) ==
  IF HandedCardAlias(source, ci, k) = 0 THEN board
  ELSE [board EXCEPT !.columns[ci].cards[HandedCardAlias(source, ci, k)].title = HackedTitle]

CallerWritesTitle(source, ci, k) ==
  /\ ci \in DOMAIN board.columns
  /\ k \in DOMAIN HandedCards(source, ci)
  /\ Rewrites(callerWritesTitleOf(source, ci, k))
  /\ board' = callerWritesTitleOf(source, ci, k)
  /\ delivered' = NoCalls
  /\ ret' = RetVoid
  /\ UNCHANGED <<filter, listeners>>
  /\ Called(source, HandedCardAlias(source, ci, k) # 0)

StoreInit ==
  /\ board \in {cloneBoard(b) : b \in StartBoards}
  /\ filter = EmptyFilter
  /\ listeners = {}
  /\ delivered = NoCalls
  /\ ret = RetVoid
  /\ edits = 0
  /\ op = [name |-> "constructor", known |-> TRUE]

\* the ids named by the operations that rewrite a field: one present, one absent
EditColumnIds == {"A", "Z"}
EditCardIds == {CardIdPool[1], "zz"}

\* every mutation of the store, with arguments that name present and absent ids
StoreNext ==
  \/ \E b \in StartBoards : SetBoard(b)
  \/ \E t \in ColumnTitleArgs : SetBoardMetadata(t, <<>>, "compact")
  \/ \E c \in NewColumns : AddColumn(c)
  \/ \E c \in EditColumnIds, t \in ColumnTitleArgs : RenameColumn(c, t)
  \/ \E c \in EditColumnIds, n \in WipLimitArgs : SetColumnWipLimit(c, n)
  \/ \E c \in ColumnIdArgs : DeleteColumn(c)
  \/ \E c \in ColumnIdArgs, i \in IndexArgs : MoveColumn(c, i)
  \/ \E c \in ColumnIdArgs, x \in NewCards, p \in Placements : AddCard(c, x, p)
  \/ \E c \in ColumnIdArgs, xs \in Batches, p \in Positions :
       InsertCardsFromParsedLines(c, xs, p)
  \/ \E c \in ColumnIdArgs, x \in CardIdArgs : GetCard(c, x)
  \/ \E c \in EditColumnIds, x \in EditCardIds, u \in Updaters : UpdateCard(c, x, u)
  \/ \E c \in ColumnIdArgs, x \in CardIdArgs : DeleteCard(c, x)
  \/ \E c \in ColumnIdArgs : ClearColumnCards(c)
  \/ \E c \in ColumnIdArgs : ArchiveColumnCards(c)
  \/ \E a \in MoveCardArgs : MoveCard(a[1], a[2], a[3], a[4])

\* is the document one a store is constructed with
Pristine == board \in {cloneBoard(b) : b \in StartBoards}

\* the store under observation: filters, subscribers and holders of handed-out
\* values; a mutation is applied to a document as constructed or as set by setBoard
ObserveNext ==
  \/ Pristine /\ StoreNext
  \/ \E b \in StartBoards : SetBoard(b)
  \/ \E q \in QueryArgs : SetFilterQuery(q)
  \/ \E t \in TagArgs : SetFilterTag(t)
  \/ ClearFilter
  \/ \E l \in ListenerIds : Subscribe(l)
  \/ \E l \in ListenerIds : Unsubscribe(l)
  \/ \E s \in HandedSources, ci \in 1..MaxCols, k \in 1..MaxCards : CallerWritesTitle(s, ci, k)

----------------------------------------------------------------------------
(* A board file, parsed and written back *)

VARIABLES
  text,      \* the content of the board file
  parsed,    \* what parseBoardMarkdown made of text, Unparsed before it ran
  written,   \* the texts serializeBoardMarkdown returned so far, in order
  gen        \* how many ids createId has handed out

codecVars == <<text, parsed, written, gen>>

Unparsed == ParseError("not parsed", 0)

\* parseBoardMarkdown(text)
ParseBoardMarkdown ==
  /\ parsed = Unparsed
  /\ parsed' = parseBoardMarkdown(text, gen)
  /\ gen' = parsed'.gen
  /\ UNCHANGED <<text, written>>

\* new BoardStore(parsed) / store.setBoard(parsed), as setViewData does after the parse
OpenParsed ==
  /\ parsed.ok
  /\ board # cloneBoard(parsed.board)
  /\ SetBoard(parsed.board)
  /\ UNCHANGED codecVars

\* the catch branch of setViewData: a marker error opens the markdown view, any
\* other error is rendered
CatchParseError ==
  /\ ~parsed.ok
  /\ parsed # Unparsed
  /\ op.name \notin {"setMarkdownView", "renderError"}
  /\ EarlyReturn(RetVoid)
  /\ Called(IF MentionsKanbanTrue(parsed.error) THEN "setMarkdownView" ELSE "renderError", TRUE)
  /\ UNCHANGED <<edits, codecVars>>

\* the file is replaced by serializeBoardMarkdown of the parsed document
SerializeBoardMarkdown ==
  /\ parsed.ok
  /\ Len(written) < MaxSaves
  /\ written' = Append(written, serializeBoardMarkdown(parsed.board))
  /\ text' = serializeBoardMarkdown(parsed.board)
  /\ parsed' = Unparsed
  /\ UNCHANGED gen

(* Input texts *)

WellFormed(columns) == Frontmatter("map", TRUE, YStr(<<"Board">>), YNone, "normal", columns)

EntryA == ColumnEntry(YStr(<<"A">>), YStr(<<"Todo">>), JsNum(2))
\* an entry of the columns array that is no object
EntryScalar == [obj |-> FALSE, id |-> YNone, title |-> YNone, wipLimit |-> JsNull]
EntryB == ColumnEntry(YStr(<<WS, "B">>), YStr(<<"Done", WS>>), JsFrac(0 - 1))

\* the frontmatters tried with every body: no columns key, and one declared column
PlainFrontmatter == WellFormed(YNoArray)

\* frontmatters tried with the sample bodies
Frontmatters ==
  {Frontmatter("none", FALSE, YNone, YNone, "", YNoArray),
   Frontmatter("badyaml", FALSE, YNone, YNone, "", YNoArray),
   Frontmatter("scalar", FALSE, YNone, YNone, "", YNoArray),
   Frontmatter("map", FALSE, YStr(<<"Board">>), YNone, "normal", YNoArray),
   Frontmatter("map", TRUE, YNone, YStr(<<WS, "about", WS>>), "compact", YArray(<<EntryB, EntryA>>)),
   Frontmatter("map", TRUE, YStr(<<WS>>), YNone, "cozy",
               YArray(<<ColumnEntry(YStr(<<"A">>), YNone, JsNull), EntryA>>)),
   Frontmatter("map", TRUE, YStr(<<"Board">>), YNone, "",
               YArray(<<EntryScalar, ColumnEntry(YStr(<<WS>>), YStr(<<"Todo">>), JsNum(1)),
                        ColumnEntry(YStr(<<"A">>), YStr(<<"Todo">>), JsStr),
                        ColumnEntry(YNone, YStr(<<"Done">>), JsNum(1)),
                        ColumnEntry(YStr(<<"B">>), YStr(<<"Done">>), JsNaN)>>)),
   WellFormed(YArray(<<ColumnEntry(YStr(<<"A">>), YStr(<<"Todo">>), JsNum(0 - 1)),
                       ColumnEntry(YStr(<<"B">>), YStr(<<"Done">>), JsFrac(2))>>)),
   Frontmatter("map", TRUE, YStr(<<"Empty", WS, "board">>), YStr(<<"about">>), "compact",
               YArray(<<>>)),
   WellFormed(YArray(<<ColumnEntry(YStr(<<"A">>), YStr(<<"Todo">>), JsInf)>>)),
   WellFormed(YArray(<<EntryA>>)),
   WellFormed(YArray(<<EntryA, EntryA>>)),
   WellFormed(YArray(<<EntryA, EntryB>>))}

HeadA == HeadLine("A", <<"Todo">>)
HeadAgain == HeadLine("A", <<"Later">>)
HeadB == HeadLine("B", <<"Done">>)
HeadC == HeadLine("C", <<"Later">>)
CardOne == CardLine(" ", "c1", <<"Fix", "#A">>)
CardTwo == CardLine("X", "c2", <<"fix", WS>>)
CardBare == CardLine(" ", "", <<>>)
\* a checkbox line with no id bracket, - [x] fix: cardRegex does not match it
CardLegacy == TextLine(0, <<"-", "[x]", "fix">>)

\* the lines a body is made of
LineVocabulary ==
  {HeadAgain, HeadB, CardOne, CardTwo, CardBare, CardLegacy,
   TextLine(1, <<"note", "#b">>), DueLine(1, "2026-01-01"), DueLine(2, "2026-02-02"),
   BlankLine, AnchorLine(1, "c1"), ArchiveStartLine(0), ArchiveEndLine(0)}

LineSeqs == UNION {[1..n -> LineVocabulary] : n \in 0..MaxLines}

\* every body of up to MaxLines lines, alone and under a first heading
Bodies == {SplitLines(ls) : ls \in LineSeqs} \cup {<<HeadA>> \o ls : ls \in LineSeqs}

SampleBodies ==
  {<<BlankLine>>,
   <<HeadA, CardOne, HeadC, CardTwo>>,
   <<HeadA, CardOne, HeadB, CardTwo>>,
   <<HeadB, CardTwo, HeadA, CardOne, HeadAgain, CardBare>>,
   <<HeadA, CardOne, ArchiveStartLine(0), CardTwo, CardBare, ArchiveEndLine(0)>>,
   <<ArchiveStartLine(0), CardTwo, ArchiveEndLine(0)>>,
   <<HeadA, CardOne, TextLine(1, <<"note", "#b">>), DueLine(1, "2026-01-01"),
     AnchorLine(1, "c1"), DueLine(2, "2026-02-02"), DueLine(1, "2026-01-01"), BlankLine>>}

InputTexts ==
  {FileText(PlainFrontmatter, body) : body \in Bodies}
    \cup {FileText(fm, body) : fm \in Frontmatters, body \in SampleBodies}

----------------------------------------------------------------------------
(* The view: setViewData, the edits that persist, and the SaveQueue *)

VARIABLES
  viewData,             \* KanbanView.data
  pendingSavePayload,   \* KanbanView.pendingSavePayload
  initialized,          \* KanbanView.initialized
  saveQueue,            \* the SaveQueue: pendingPayload and its two timer handles
  carried,              \* "queued": the queue holds a payload requested before the last
                        \* reload of changed text; "flushed": the flush function got it
  writing,              \* SaveQueue.writing
  clock,                \* per timer handle, the ticks until the timer fires, NotSet when
                        \* the timer was cleared or has fired
  clipboard,            \* the lines of the text readClipboardText returned
  pasted,               \* what parseClipboardList returned for it
  inFlight,             \* how many calls of the flush function have not settled
  lastRequested         \* the payload of the last call of SaveQueue.request

\* the state that the save timers and the paste handler add to the view
sideVars == <<writing, clock, clipboard, pasted, inFlight, lastRequested>>

viewVars == <<viewData, pendingSavePayload, initialized, saveQueue, carried, sideVars>>

NotSet == 0 - 1
NoClock == [debounceHandle |-> NotSet, maxDelayHandle |-> NotSet]
NotPasted == <<[title |-> <<>>, checked |-> FALSE]>>

\* null, for a payload
NoPayload == FileText(Frontmatter("null", FALSE, YNone, YNone, "", YNoArray), <<>>)

Queue(pendingPayload, debounceHandle, maxDelayHandle) ==
  [pendingPayload |-> pendingPayload, debounceHandle |-> debounceHandle,
   maxDelayHandle |-> maxDelayHandle]

\* a request that keeps the payload that is already pending
requestKeepingPending(q, payload) ==
  Queue(IF q.pendingPayload = NoPayload THEN payload ELSE q.pendingPayload, TRUE, TRUE)

\* SaveQueue.request: the payload replaces the pending one, the debounce timer is
\* set again, the max-delay timer is set when it is not running
request(q, payload) == Queue(payload, TRUE, TRUE)

\* SaveQueue.clearPending
clearPending(q) == Queue(NoPayload, FALSE, FALSE)

\* SaveQueue.flush returns at once when nothing is pending
flushReturnsEarly(q) == q.pendingPayload = NoPayload

\* SaveQueue.flush, the flush function having returned: nothing pending, no timers
flushed(q) == Queue(NoPayload, FALSE, FALSE)

\* the name of the file the view shows
Basename == <<"Board">>

\* syncBoardTitleWithFile(false) on the document b
syncBoardTitleWithFileOf(b) ==
  IF b.boardTitle = Basename THEN b
  ELSE setBoardMetadataOf(b, Basename, b.boardDescription, b.density)

\* setViewData(data): the pending-save bookkeeping, then the parse and the store
SetViewData(data) ==
  LET echo == pendingSavePayload # NoPayload /\ pendingSavePayload = data
      dropsQueue == pendingSavePayload # NoPayload /\ ~echo /\ initialized
      nextQueue == IF dropsQueue THEN clearPending(saveQueue) ELSE saveQueue
      result == parseBoardMarkdown(data, gen)
      \* an initialized view reloads text that differs from what it holds and saved
      changed == initialized /\ data # viewData /\ ~echo /\ result.ok
  IN /\ viewData' = data
     /\ pendingSavePayload' = IF echo \/ dropsQueue THEN NoPayload ELSE pendingSavePayload
     /\ saveQueue' = nextQueue
     /\ carried' = IF nextQueue.pendingPayload = NoPayload THEN "none"
                   ELSE IF changed THEN "queued" ELSE carried
     /\ gen' = result.gen
     /\ IF result.ok
        THEN /\ initialized' = TRUE
             /\ Mutate(syncBoardTitleWithFileOf(cloneBoard(result.board)), RetVoid)
             /\ Called("setBoard", TRUE)
        ELSE /\ EarlyReturn(RetVoid)
             /\ Called(IF MentionsKanbanTrue(result.error) THEN "setMarkdownView"
                       ELSE "renderError", TRUE)
             /\ UNCHANGED initialized
     /\ UNCHANGED <<edits, text, parsed, written, sideVars>>

\* schedulePersist(), after the store took the document next
schedulePersist(next) ==
  /\ saveQueue' = request(saveQueue, serializeBoardMarkdown(next))
  /\ carried' = "none"

\* a handleCardDrop that passes the place behind the target card
dropIndexBehind(b, targetColumnId, targetCardId) ==
  LET cards == CardsOfColumn(b, targetColumnId)
  IN IF targetCardId = NULL \/ CardIndex(cards, targetCardId) = 0 THEN Len(cards)
     ELSE CardIndex(cards, targetCardId)

\* the index handleCardDrop passes to moveCard
dropIndex(b, targetColumnId, targetCardId) ==
  LET cards == CardsOfColumn(b, targetColumnId)
  IN IF targetCardId = NULL \/ CardIndex(cards, targetCardId) = 0 THEN Len(cards)
     ELSE CardIndex(cards, targetCardId) - 1

\* handleCardDrop, the dragged card being cardId of sourceColumnId
HandleCardDrop(sourceColumnId, cardId, targetColumnId, targetCardId) ==
  /\ initialized
  /\ KnownColumn(board, targetColumnId)
  /\ MoveCard(sourceColumnId, cardId, targetColumnId,
              dropIndex(board, targetColumnId, targetCardId))
  /\ schedulePersist(board')
  /\ UNCHANGED <<viewData, pendingSavePayload, initialized, codecVars, sideVars>>

\* clear(): the queue is emptied, the store takes the default board, which is persisted
Clear ==
  /\ initialized
  /\ SetBoard(createDefaultBoard(Basename))
  /\ schedulePersist(board')
  /\ UNCHANGED <<viewData, pendingSavePayload, initialized, codecVars, sideVars>>

\* one of the two timers of the SaveQueue fires: flush(), and in it the flush
\* function of the view, which takes the payload as the data to save
TimerFires(handle) ==
  /\ saveQueue[handle]
  /\ IF flushReturnsEarly(saveQueue)
     THEN UNCHANGED viewVars
     ELSE /\ saveQueue' = flushed(saveQueue)
          /\ pendingSavePayload' = saveQueue.pendingPayload
          /\ viewData' = saveQueue.pendingPayload
          /\ carried' = IF carried = "queued" THEN "flushed" ELSE "none"
          /\ UNCHANGED <<initialized, sideVars>>
  /\ UNCHANGED <<storeVars, codecVars>>

\* texts the file holds when something else wrote it
ExternalTexts ==
  {serializeBoardMarkdown(StartBoard(n)) : n \in 1..MaxCards}
    \cup {FileText(Frontmatter("map", FALSE, YStr(<<"Board">>), YNone, "normal", YNoArray),
                   <<BlankLine>>),
          FileText(Frontmatter("none", FALSE, YNone, YNone, "", YNoArray), <<BlankLine>>)}

\* the texts setViewData is called with: the file as written by something else, and
\* the text the view itself saved last
DeliveredTexts == ExternalTexts \cup ({pendingSavePayload} \ {NoPayload})

----------------------------------------------------------------------------
(* Specifications *)

vars == <<storeVars, codecVars, viewVars>>

CodecIdle ==
  /\ text = FileText(PlainFrontmatter, <<BlankLine>>)
  /\ parsed = Unparsed
  /\ written = <<>>
  /\ gen = 0

ViewIdle ==
  /\ viewData = FileText(PlainFrontmatter, <<BlankLine>>)
  /\ pendingSavePayload = NoPayload
  /\ initialized = FALSE
  /\ saveQueue = Queue(NoPayload, FALSE, FALSE)
  /\ carried = "none"
  /\ writing = FALSE
  /\ clock = NoClock
  /\ clipboard = <<>>
  /\ pasted = NotPasted
  /\ inFlight = 0
  /\ lastRequested = NoPayload

\* the store, driven through its operations
Init == StoreInit /\ CodecIdle /\ ViewIdle
Next == StoreNext /\ UNCHANGED <<codecVars, viewVars>>
Spec == Init /\ [][Next]_vars

\* the store with filters, subscribers and holders of handed-out values
NextObserve == ObserveNext /\ UNCHANGED <<codecVars, viewVars>>
SpecObserve == Init /\ [][NextObserve]_vars

\* a store as the view constructs it before the first load
EmptyStore ==
  /\ board = createDefaultBoard(<<>>)
  /\ filter = EmptyFilter
  /\ listeners = {}
  /\ delivered = NoCalls
  /\ ret = RetVoid
  /\ edits = 0
  /\ op = [name |-> "constructor", known |-> TRUE]

\* a text is parsed, opened in the store, written back, and parsed again
InitCodec ==
  /\ EmptyStore
  /\ ViewIdle
  /\ text \in InputTexts
  /\ parsed = Unparsed
  /\ written = <<>>
  /\ gen = 0
NextCodec ==
  \/ ParseBoardMarkdown /\ UNCHANGED <<storeVars, viewVars>>
  \/ OpenParsed /\ UNCHANGED viewVars
  \/ CatchParseError /\ UNCHANGED viewVars
  \/ SerializeBoardMarkdown /\ UNCHANGED <<storeVars, viewVars>>
SpecCodec == InitCodec /\ [][NextCodec]_vars

\* the view of one file: loads and reloads, card drops, and the save timers
InitView == EmptyStore /\ CodecIdle /\ ViewIdle
NextView ==
  \/ \E data \in DeliveredTexts : SetViewData(data)
  \/ \E s \in EditColumnIds, x \in KnownCardIds, t \in EditColumnIds,
        y \in KnownCardIds \cup {NULL} : HandleCardDrop(s, x, t, y)
  \/ Clear
  \/ \E handle \in {"debounceHandle", "maxDelayHandle"} : TimerFires(handle)
SpecView == InitView /\ [][NextView]_vars

\* a board of MaxLanes empty columns whose columns are moved and deleted
LaneIdPool == <<"one", "two", "three", "four", "five", "six">>
LaneIds == {LaneIdPool[k] : k \in 1..MaxLanes}
LaneBoard ==
  Board(<<"Board">>, <<>>, "normal",
        [k \in 1..MaxLanes |-> Column(LaneIdPool[k], <<LaneIdPool[k]>>, JsNull, <<>>)], <<>>)
LaneIndexArgs == (0 - 1)..(MaxLanes + 1)

InitLanes ==
  /\ board = cloneBoard(LaneBoard)
  /\ filter = EmptyFilter
  /\ listeners = {}
  /\ delivered = NoCalls
  /\ ret = RetVoid
  /\ edits = 0
  /\ op = [name |-> "constructor", known |-> TRUE]
  /\ CodecIdle
  /\ ViewIdle
NextLanes ==
  \/ \E c \in LaneIds \cup {"Z"}, i \in LaneIndexArgs :
       MoveColumn(c, i) /\ UNCHANGED <<codecVars, viewVars>>
  \/ \E c \in LaneIds : DeleteColumn(c) /\ UNCHANGED <<codecVars, viewVars>>
SpecLanes == InitLanes /\ [][NextLanes]_vars

----------------------------------------------------------------------------
(* Properties *)

NoRepeats(s) == \A i, j \in DOMAIN s : s[i] = s[j] => i = j

MutationNames ==
  {"setBoard", "setBoardMetadata", "addColumn", "renameColumn", "setColumnWipLimit",
   "deleteColumn", "moveColumn", "addCard", "insertCardsFromParsedLines", "updateCard",
   "deleteCard", "clearColumnCards", "archiveColumnCards", "moveCard"}

FilterNames == {"setFilterQuery", "setFilterTag", "clearFilter"}

\* C1: a text that was written by serializeBoardMarkdown from a parsed document is
\* written back unchanged when it is parsed and serialized again: the second text
\* of a run equals the first.
C1_SecondWriteEqualsFirst == Len(written) >= 2 => written[2] = written[1]

\* C2: moveCard within one column, with targetIndex equal to the number of cards of
\* the column, leaves the moved card last and the other cards in their order.
C2_MoveToCountMakesLast ==
  \A c \in ColumnIdArgs, x \in CardIdArgs :
    KnownCard(board, c, x)
      => LET before == CardsOfColumn(board, c)
             after == CardsOfColumn(moveCardOf(board, c, x, c, Len(before)), c)
         IN /\ Len(after) = Len(before)
            /\ after[Len(after)].id = x
            /\ SubSeq(after, 1, Len(after) - 1) = RemoveAt(before, CardIndex(before, x))

\* C3: a mutation that names a column or a card the document does not hold (for
\* moveCard: an unknown source column, target column or card) leaves the document
\* getBoard() returns as it was.
C3_UnknownIdLeavesDocument ==
  [][(op'.name \in MutationNames /\ ~op'.known) => getBoardOf(board') = getBoardOf(board)]_vars

C3_UnknownIdWitness ==
  /\ op.name = "moveCard"
  /\ ~op.known
  /\ Len(CardsOfColumn(board, "A")) = MaxCards

\* C4: every card the store holds, in a column or in the archive, has the tags and
\* the searchText normalizeCard derives from its title, description and dueDate.
C4_DerivedFieldsCurrent ==
  \A i \in DOMAIN AllCards(board) :
    LET card == AllCards(board)[i]
    IN /\ card.tags = normalizeCard(CardInput(card)).tags
       /\ card.searchText = normalizeCard(CardInput(card)).searchText

\* C5: a mutation or a filter setter that changes the document or the filter calls
\* every subscribed listener exactly once, with the snapshot of the state after it.
C5_ChangeNotifiesEveryListener ==
  [][(/\ op'.name \in MutationNames \cup FilterNames
      /\ (board' # board \/ filter' # filter))
       => \A l \in listeners : delivered'[l] = <<getSnapshot(board', filter')>>]_vars

C5_NotifiedWitness ==
  /\ op.name = "moveCard"
  /\ op.known
  /\ listeners = ListenerIds
  /\ FilterIsActive(filter)
  /\ \A l \in ListenerIds : delivered[l] = <<getSnapshot(board, filter)>>

\* C6: a write in place to a card handed out by getBoard(), getCard() or
\* getSnapshot() (board or visibleColumns) leaves the document getBoard() returns
\* as it was.
C6_HandedValuesAreCopies ==
  [][op'.name \in HandedSources => getBoardOf(board') = getBoardOf(board)]_vars

\* C7: the flush function never gets a payload that was requested before the last
\* reload of externally changed text.
C7_NoFlushOfCarriedPayload == carried # "flushed"

\* C8: no card id occurs twice in the document of the store, columns and archive
\* taken together.
C8_CardIdsUnique == NoRepeats(CardIds(AllCards(board)))

\* C9: the document parseBoardMarkdown returns has no two columns with the same id.
C9_ParsedColumnIdsUnique == parsed.ok => NoRepeats(ColumnIds(parsed.board))

\* C10: setFilterQuery, setFilterTag and clearFilter leave the document of
\* getBoard(), the board of getSnapshot() and its allTags as they were.
C10_FilterLeavesDocument ==
  [][op'.name \in FilterNames
       => /\ getBoardOf(board') = getBoardOf(board)
          /\ getSnapshot(board', filter').board = getSnapshot(board, filter).board
          /\ getSnapshot(board', filter').allTags = getSnapshot(board, filter).allTags]_vars

C10_FilterWitness ==
  /\ op.name = "setFilterTag"
  /\ filter.tag = "#a"
  /\ CardCount(board) = MaxCards
  /\ getSnapshot(board, filter).visibleColumns # getSnapshot(board, filter).board.columns

\* the cards a filter with query q (trimmed, lower-cased) and tag t (normalized)
\* shows of a list: those whose searchText contains q and whose tags contain t
ShownBy(cards, q, t) ==
  {c \in SeqToSet(cards) :
     /\ q # "" => SearchIncludes(c.searchText, q)
     /\ t # "" => \E k \in DOMAIN c.tags : c.tags[k] = t}

\* C11: visibleColumns lists every column in board order, each with exactly the
\* cards of that column, in their order, whose searchText contains the trimmed
\* lower-cased query and whose tags contain the normalized tag; with both filter
\* fields empty (a whitespace-only query is empty) it is the full column list.
C11_VisibleColumnsAreTheMatches ==
  LET vis == getSnapshot(board, filter).visibleColumns
      q == IF filter.query \in {"", WS} THEN "" ELSE LowerWord(filter.query)
      t == normalizeTagFilter(filter.tag)
  IN  IF q = "" /\ t = "" THEN vis = getBoardOf(board).columns
      ELSE /\ Len(vis) = Len(board.columns)
           /\ \A i \in DOMAIN vis :
                /\ vis[i].id = board.columns[i].id
                /\ vis[i].title = board.columns[i].title
                /\ vis[i].cards =
                     FilterSeq(board.columns[i].cards, ShownBy(board.columns[i].cards, q, t))

C11_SomeShownSomeHidden ==
  /\ QueryOf(filter) # ""
  /\ normalizeTagFilter(filter.tag) # ""
  /\ \E i \in DOMAIN board.columns :
       /\ Len(getSnapshot(board, filter).visibleColumns[i].cards) > 0
       /\ Len(getSnapshot(board, filter).visibleColumns[i].cards) < Len(board.columns[i].cards)

\* C12: after setBoard replaces the document the filter is {query: '', tag: ''}
\* and every subscriber is handed a snapshot whose visibleColumns show every card
\* of the new document.
C12_SetBoardResetsFilter ==
  [][op'.name = "setBoard"
       => /\ filter' = EmptyFilter
          /\ \A l \in listeners' :
               /\ Len(delivered'[l]) = 1
               /\ delivered'[l][1].visibleColumns = getBoardOf(board').columns]_vars

\* the runs named for moveColumn: [one,two,three] with moveColumn('one', 2), and
\* moveColumn('two', 2) then moveColumn('two', 1) on [one,two,three,four]
MoveColumnExamples ==
  /\ ColumnIds(board) = <<"one", "two", "three">>
       => ColumnIds(moveColumnOf(board, "one", 2)) = <<"two", "three", "one">>
  /\ ColumnIds(board) = <<"one", "two", "three", "four">>
       => /\ ColumnIds(moveColumnOf(board, "two", 2)) = <<"one", "three", "two", "four">>
          /\ moveColumnOf(moveColumnOf(board, "two", 2), "two", 1) = board

\* C13: moveColumn(id, targetIndex) for a present id puts the column at targetIndex
\* clamped to [0, number of the other columns]; the other columns keep their order,
\* and nothing else of the document changes.
C13_MoveColumnPutsAtClampedIndex ==
  /\ MoveColumnExamples
  /\ \A c \in LaneIds, i \in LaneIndexArgs :
      KnownColumn(board, c) =>
        LET before == board.columns
            after == moveColumnOf(board, c, i).columns
            clamped == IF i < 0 THEN 0 ELSE IF i > Len(before) - 1 THEN Len(before) - 1 ELSE i
        IN  /\ Len(after) = Len(before)
            /\ after[clamped + 1] = before[ColumnIndex(board, c)]
            /\ RemoveAt(after, clamped + 1) = RemoveAt(before, ColumnIndex(board, c))
            /\ moveColumnOf(board, c, i) = [board EXCEPT !.columns = after]

C13_MovedToEndWitness ==
  /\ op = [name |-> "moveColumn", known |-> TRUE]
  /\ ColumnIds(board) = <<"two", "three", "one">>

\* the cards of the column named c, none when the document has no such column
CardsNamed(b, c) ==
  IF \E i \in DOMAIN b.columns : b.columns[i].id = c
  THEN b.columns[CHOOSE i \in DOMAIN b.columns : b.columns[i].id = c].cards
  ELSE <<>>

C15_InsertReturnsCountInserted ==
  [][op'.name = "insertCardsFromParsedLines"
       => /\ ret'.kind = "num"
          /\ ret'.num = CardCount(board') - CardCount(board)
          /\ ret'.num > 0 => board' # board]_vars

\* what insertCardsFromParsedLines(c, xs, position) is to do to the document b
InsertedAt(b, after, c, xs, position) ==
  /\ Len(after.columns) = Len(b.columns)
  /\ \A i \in DOMAIN b.columns :
       IF b.columns[i].id = c
       THEN LET old == b.columns[i].cards
                new == after.columns[i].cards
            IN  /\ Len(new) = Len(old) + Len(xs)
                /\ position = "before" =>
                     SubSeq(new, 1, Len(xs)) = xs /\ SubSeq(new, Len(xs) + 1, Len(new)) = old
                /\ position = "after" =>
                     SubSeq(new, 1, Len(old)) = old /\ SubSeq(new, Len(old) + 1, Len(new)) = xs
                /\ after.columns[i] = [b.columns[i] EXCEPT !.cards = new]
       ELSE after.columns[i] = b.columns[i]
  /\ after = [b EXCEPT !.columns = after.columns]

\* batches of cards the document does not hold
ProbeBatches ==
  {<<MkCard("b1", <<"fix">>)>>, <<MkCard("b1", <<"fix">>), MkCard("b2", <<"#b">>)>>}

\* existing [E], then before [B1,B2], then after [A1], gives [B1,B2,E,A1]
InsertExample ==
  \A c \in ColumnIdArgs :
    (KnownColumn(board, c) /\ Len(CardsOfColumn(board, c)) = 1) =>
      LET batch == <<MkCard("b1", <<"fix">>), MkCard("b2", <<"#b">>)>>
          last == <<MkCard("a1", <<"fix">>)>>
          one == insertCardsFromParsedLinesOf(board, c, batch, "before")
          two == insertCardsFromParsedLinesOf(one, c, last, "after")
      IN  CardsOfColumn(two, c) = batch \o CardsOfColumn(board, c) \o last

\* C16: insertCardsFromParsedLines(col, cards, 'before') puts the batch, in batch
\* order, ahead of the column's cards and 'after' behind them; the column's cards
\* keep their order and the other columns and the archive are unchanged.
C16_BatchGoesBeforeOrAfter ==
  /\ [](/\ InsertExample
        /\ \A c \in ColumnIdArgs, xs \in ProbeBatches, p \in Positions :
             InsertedAt(board, insertCardsFromParsedLinesOf(board, c, xs, p), c, xs, p))
  /\ [][op'.name = "insertCardsFromParsedLines" =>
          \A c \in ColumnIdArgs, xs \in Batches, p \in Positions :
            InsertCardsFromParsedLines(c, xs, p) => InsertedAt(board, board', c, xs, p)]_vars

C16_BatchBeforeWitness ==
  /\ op = [name |-> "insertCardsFromParsedLines", known |-> TRUE]
  /\ ret = RetNum(1)
  /\ CardIds(CardsOfColumn(board, "A")) = <<CardIdPool[MaxCards], CardIdPool[1]>>

\* C17: parseBoardMarkdown throws exactly when the text has no header block, or the
\* header does not decode to an object, or its kanban field is not true; each case
\* has messages of its own, and only the message of the kanban case mentions
\* kanban: true, which setViewData answers with the markdown view, not an error.
C17_ThrowsForHeaderAndMarkerOnly ==
  parsed # Unparsed =>
    LET noHeader == text.fm.kind = "none"
        notObject == text.fm.kind \in {"badyaml", "scalar"}
        noMarker == text.fm.kind = "map" /\ text.fm.kanban # TRUE
    IN  /\ ~parsed.ok <=> (noHeader \/ notObject \/ noMarker)
        /\ noHeader => parsed.error = MissingFrontmatter
        /\ notObject => parsed.error \in {InvalidYaml, NotAnObject}
        /\ noMarker => parsed.error = MissingKanbanTrue
        /\ MissingFrontmatter \notin {InvalidYaml, NotAnObject, MissingKanbanTrue}
        /\ MissingKanbanTrue \notin {InvalidYaml, NotAnObject}
        /\ ~parsed.ok => (MentionsKanbanTrue(parsed.error) <=> noMarker)
        /\ op.name = "setMarkdownView" => noMarker
        /\ op.name = "renderError" => (noHeader \/ notObject)

C17_MarkerErrorRouted ==
  /\ op.name = "setMarkdownView"
  /\ parsed.error = MissingKanbanTrue

\* the entries of a header's columns array that are objects with a non-blank id
\* and a non-blank title, in order
RECURSIVE UsableEntries(_)
UsableEntries(items) ==
  IF items = <<>> THEN <<>>
  ELSE (IF /\ Head(items).obj
           /\ Head(items).id.t = "str" /\ TrimW(Head(items).id.w) # <<>>
           /\ Head(items).title.t = "str" /\ TrimW(Head(items).title.w) # <<>>
        THEN <<Head(items)>> ELSE <<>>) \o UsableEntries(Tail(items))

\* is x a number that is not negative
NonNegativeNumber(x) == (x.t = "num" /\ (x.v >= 0 \/ (x.f /\ x.v + 1 > 0))) \/ x.t = "inf"

\* C18: a text whose header is an object with kanban: true is parsed without an
\* error whatever else it holds: a wipLimit that is no non-negative number becomes
\* null, a density other than compact becomes normal, a blank title becomes
\* Untitled Kanban, and a header entry without id or title is dropped while the
\* other entries stay, in order.
C18_FieldErrorsAreRepaired ==
  (parsed # Unparsed /\ text.fm.kind = "map" /\ text.fm.kanban = TRUE) =>
    LET fm == text.fm
        usable == IF fm.columns.arr THEN UsableEntries(fm.columns.items) ELSE <<>>
        columns == parsed.board.columns
    IN  /\ parsed.ok
        /\ parsed.board.density = (IF fm.density = "compact" THEN "compact" ELSE "normal")
        /\ (fm.boardTitle.t # "str" \/ TrimW(fm.boardTitle.w) = <<>>)
             => parsed.board.boardTitle = <<"Untitled", "Kanban">>
        /\ Len(columns) >= Len(usable)
        /\ \A k \in DOMAIN usable :
             /\ columns[k].id = TrimW(usable[k].id.w)[1]
             /\ columns[k].title = TrimW(usable[k].title.w)
             /\ ~NonNegativeNumber(usable[k].wipLimit) => columns[k].wipLimit = JsNull
             /\ NonNegativeNumber(usable[k].wipLimit) => columns[k].wipLimit.t \in {"num", "inf"}

C18_RepairedWitness ==
  /\ parsed.ok
  /\ text.fm.density = ""
  /\ Len(text.fm.columns.items) = 5
  /\ ColumnIds(parsed.board) = <<"A", "B">>
  /\ parsed.board.columns[1].wipLimit = JsNull

\* C19: a parsed document lists the header's columns in header order, each with
\* the cards of the body section of its id (none when there is no such section),
\* and behind them the body sections of ids the header does not declare, in body
\* order and with wipLimit null: header [b, a] and sections [a, c] give [b, a, c].
C19_HeaderColumnsThenBodyOnly ==
  [][(ParseBoardMarkdown /\ parsed'.ok) =>
       LET defs == parseColumnDefinitions(text.fm.columns)
           extracted == extractArchiveSection(text.body, gen)
           sections == parseColumnsFromBody(extracted.bodyWithoutArchive, extracted.gen).columns
           declared == {defs[i].id : i \in DOMAIN defs}
           bodyOnly == FilterSeq(sections, {x \in SeqToSet(sections) : x.id \notin declared})
           columns == parsed'.board.columns
       IN  /\ Len(columns) = Len(defs) + Len(bodyOnly)
           /\ \A i \in DOMAIN defs :
                /\ columns[i].id = defs[i].id
                /\ columns[i].title = defs[i].title
                /\ columns[i].wipLimit = defs[i].wipLimit
                /\ IF \E j \in DOMAIN sections : sections[j].id = defs[i].id
                   THEN \E j \in DOMAIN sections :
                          sections[j].id = defs[i].id /\ columns[i].cards = sections[j].cards
                   ELSE columns[i].cards = <<>>
           /\ \A k \in DOMAIN bodyOnly :
                columns[Len(defs) + k] =
                  Column(bodyOnly[k].id, bodyOnly[k].title, JsNull, bodyOnly[k].cards)]_vars

C19_HeaderThenBodyWitness ==
  /\ parsed.ok
  /\ written = <<>>
  /\ ColumnIds(parsed.board) = <<"B", "A", "C">>
  /\ CardIds(parsed.board.columns[1].cards) = <<>>
  /\ CardIds(parsed.board.columns[2].cards) = <<"c1">>
  /\ CardIds(parsed.board.columns[3].cards) = <<"c2">>

\* a card line whose id bracket holds only whitespace, or that has no id bracket
IsBareCardLine(l) == l.k = "card" /\ l.ind = 0 /\ l.id = ""
IsLegacyCardLine(l) ==
  l.k = "text" /\ l.ind = 0 /\ Len(l.w) >= 2 /\ l.w[1] = "-" /\ l.w[2] \in {"[ ]", "[x]", "[X]"}

\* the title and the checked state such a line carries
TitleOfCardLine(l) == IF IsLegacyCardLine(l) THEN TrimW(SubSeq(l.w, 3, Len(l.w))) ELSE TrimW(l.w)
CheckedOfCardLine(l) == IF IsLegacyCardLine(l) THEN l.w[2] \in {"[x]", "[X]"} ELSE l.chk \in {"x", "X"}

\* the lines of body that lie in a section or in the archive block
LinesOfSections(body) ==
  LET from == ArchiveStartIndex(body)
      to == ArchiveEndIndex(body)
      InArchive(i) == to # 0 /\ from < i /\ i < to
      OnMarker(i) == to # 0 /\ i \in {from, to}
  IN {i \in DOMAIN body :
        \/ InArchive(i)
        \/ /\ ~OnMarker(i)
           /\ \E j \in 1..(i - 1) :
                MatchesHeadingRegex(body[j]) /\ ~InArchive(j) /\ ~OnMarker(j)}

\* does the document hold a card with a generated id and the title and checked
\* state of the line l
HasGeneratedCardOf(b, l) ==
  \E k \in DOMAIN AllCards(b) :
    /\ AllCards(b)[k].id \in SeqToSet(GenIds)
    /\ AllCards(b)[k].title = TitleOfCardLine(l)
    /\ AllCards(b)[k].checked = CheckedOfCardLine(l)

\* C20: a card line of a section or of the archive block that carries no id (no id
\* bracket, or a bracket of whitespace) is parsed as a card with its title and
\* checked state and a generated id.
C20_CardLinesWithoutIdAreKept ==
  (parsed.ok /\ written = <<>>) =>
    \A i \in LinesOfSections(text.body) :
      (IsBareCardLine(text.body[i]) \/ IsLegacyCardLine(text.body[i]))
        => HasGeneratedCardOf(parsed.board, text.body[i])

\* what the parser does keep: a card line whose id bracket holds only whitespace
BareCardLinesAreKept ==
  (parsed.ok /\ written = <<>>) =>
    \A i \in LinesOfSections(text.body) :
      IsBareCardLine(text.body[i]) => HasGeneratedCardOf(parsed.board, text.body[i])

\* C21: parsing keeps the ids the text holds: every card line of a section or of
\* the archive block that carries an id gives a card of that id, and parsing the
\* text written from a parsed document gives the same column ids and the same card
\* ids in the same order.
C21_ReparseKeepsIds ==
  (parsed.ok /\ written = <<>>) =>
    LET first == parsed.board
        again == parseBoardMarkdown(serializeBoardMarkdown(first), parsed.gen)
    IN  /\ \A i \in LinesOfSections(text.body) :
             (MatchesCardRegex(text.body[i]) /\ text.body[i].id # "")
               => \E k \in DOMAIN AllCards(first) : AllCards(first)[k].id = text.body[i].id
        /\ again.ok
        /\ ColumnIds(again.board) = ColumnIds(first)
        /\ CardIds(AllCards(again.board)) = CardIds(AllCards(first))

\* C22: every card of a parsed document has a title that is not empty after
\* trimming.
C22_ParsedCardsHaveTitles ==
  parsed.ok =>
    \A k \in DOMAIN AllCards(parsed.board) : TrimW(AllCards(parsed.board)[k].title) # <<>>

\* the indexes of the lines of the kind
LinesOfKind(lines, kind) == {i \in DOMAIN lines : lines[i].k = kind}

ZeroColumnText(content) ==
  /\ content.fm.kind = "map"
  /\ content.fm.kanban = TRUE
  /\ content.fm.columns = YArray(<<>>)
  /\ \A i \in DOMAIN content.body : content.body[i].k # "head"

\* C24: a text whose header has kanban: true and columns: [] and whose body has
\* no heading parses without error to a document with no column that has the
\* header's title, description and density and the cards of the body's archive
\* block, none when the body has no block.
C24_ZeroColumnsParse ==
  [][(ParseBoardMarkdown /\ ZeroColumnText(text)) =>
       LET header == text.fm
           b == parsed'.board
           block == ArchiveEndIndex(text.body) # 0
       IN  /\ parsed'.ok
           /\ b.columns = <<>>
           /\ b.boardTitle = IF header.boardTitle.t = "str" /\ TrimW(header.boardTitle.w) # <<>>
                             THEN TrimW(header.boardTitle.w) ELSE <<"Untitled", "Kanban">>
           /\ b.boardDescription = IF header.boardDescription.t = "str"
                                   THEN TrimW(header.boardDescription.w) ELSE <<>>
           /\ b.density = IF header.density = "compact" THEN "compact" ELSE "normal"
           /\ b.archive = extractArchiveSection(text.body, gen).archive
           /\ block => Len(b.archive) =
                         Cardinality({i \in ArchiveStartIndex(text.body)..ArchiveEndIndex(text.body) :
                                        MatchesCardRegex(text.body[i])})
           /\ ~block => b.archive = <<>>]_vars

\* a header with columns: [] and an archive block gave a document with no column,
\* the header's description and density, and the archived card
C24_ZeroColumnsWithArchiveWitness ==
  /\ parsed.ok
  /\ ZeroColumnText(text)
  /\ written = <<>>
  /\ parsed.board.columns = <<>>
  /\ parsed.board.boardDescription = <<"about">>
  /\ parsed.board.density = "compact"
  /\ Len(parsed.board.archive) = 1

\* null or a non-negative integer
IsWipLimit(x) == x = JsNull \/ (x.t = "num" /\ ~x.f /\ x.v >= 0)

\* C25: the wipLimit of every column of a parsed document, and of every column
\* the store holds, is null or a non-negative integer.
C25_WipLimitsAreNullOrNatural ==
  /\ parsed.ok => \A i \in DOMAIN parsed.board.columns : IsWipLimit(parsed.board.columns[i].wipLimit)
  /\ \A i \in DOMAIN board.columns : IsWipLimit(board.columns[i].wipLimit)

----------------------------------------------------------------------------
(* Card normalization: a store constructed with one card, and updateCard *)

TagTitles ==
  {<<"fix">>, <<"Fix", "#A">>, <<"#b">>, <<"#zz", "#a", "x#b">>, <<"#A", "#a">>, <<"x#b">>,
   <<"note", "#zz", "#b">>}
TagDescriptions ==
  {<<>>,
   <<TextLine(0, <<"note", "#b">>)>>,
   <<TextLine(0, <<"#zz">>), TextLine(0, <<"Fix", "#A">>)>>,
   <<TextLine(0, <<"#a">>), BlankLine, TextLine(0, <<"#b", "#a">>)>>,
   <<TextLine(0, <<"x#b">>)>>}
TagUpdaters == {"retitle", "untitle", "describe", "retag", "check", "due"}

\* a Card object as a caller builds it: the tags are not those of its description
TagCard(title, description) == [MkCard("c1", title) EXCEPT !.description = description]

InitCards ==
  /\ \E t \in TagTitles, d \in TagDescriptions :
       board = cloneBoard(Board(<<"Board">>, <<>>, "normal",
                                <<Column("A", <<"Todo">>, JsNull, <<TagCard(t, d)>>)>>, <<>>))
  /\ filter = EmptyFilter
  /\ listeners = {}
  /\ delivered = NoCalls
  /\ ret = RetVoid
  /\ edits = 0
  /\ op = [name |-> "constructor", known |-> TRUE]
  /\ CodecIdle
  /\ ViewIdle

NextCards ==
  \E u \in TagUpdaters : UpdateCard("A", "c1", u) /\ UNCHANGED <<codecVars, viewVars>>

SpecCards == InitCards /\ [][NextCards]_vars

\* a whitespace-delimited word that is # followed by letters, digits, /, _ or -
IsHashtag(w) == w \in {"#a", "#A", "#b", "#zz"}

\* the words of the title and of the lines of the description
WordsOfCard(card) ==
  SeqToSet(card.title) \cup UNION {SeqToSet(card.description[i].w) : i \in DOMAIN card.description}

\* the place of a tag in the sorted order
TagRank(tag) == CHOOSE k \in DOMAIN TagOrder : TagOrder[k] = tag

\* C26: the tags of a card the store holds after its construction and after
\* updateCard are the lower-cased hashtags of its title and description, each
\* once, in sorted order: occurrences that differ only in case give one tag, and
\* no tag stays whose hashtag occurs no longer.
C26_TagsAreTheHashtags ==
  \A k \in DOMAIN AllCards(board) :
    LET card == AllCards(board)[k]
        hashtags == {w \in WordsOfCard(card) : IsHashtag(w)}
    IN  /\ SeqToSet(card.tags) = {LowerWord(w) : w \in hashtags}
        /\ \A i, j \in DOMAIN card.tags : i < j => TagRank(card.tags[i]) < TagRank(card.tags[j])

\* updateCard replaced the description of the card titled Fix #A, which had the
\* tag #b, by one with #zz and #a: the tags are #a and #zz
C26_CaseMergedWitness ==
  /\ op = [name |-> "updateCard", known |-> TRUE]
  /\ Len(board.columns[1].cards) = 1
  /\ board.columns[1].cards[1].title = <<"Fix", "#A">>
  /\ board.columns[1].cards[1].description = <<TextLine(0, <<"#zz", "#a", "x#b">>)>>
  /\ board.columns[1].cards[1].tags = <<"#a", "#zz">>

----------------------------------------------------------------------------
(* Clipboard lists (model/clipboard.ts) *)

\* A line is the sequence of its tokens; WS stands for a run of whitespace, and
\* tokens that follow each other with no WS between them touch.
BulletMarks == {"-", "*", "+"}
CheckBoxes == {"[ ]", "[x]", "[X]"}
Ordinals == {"1.", "2)"}

NoMatch == [ok |-> FALSE, box |-> "", title |-> <<>>]
Match(box, title) == [ok |-> TRUE, box |-> box, title |-> title]

\* what follows a first token of the set marks and the whitespace after it
AfterMark(trimmed, marks) ==
  IF Len(trimmed) >= 3 /\ trimmed[1] \in marks /\ trimmed[2] = WS
  THEN TrimStart(SubSeq(trimmed, 2, Len(trimmed)))
  ELSE <<>>

\* /^\s*[-*+]\s+\[([ xX])]\s+(.+)$/
checklistRegex(trimmed) ==
  LET rest == AfterMark(trimmed, BulletMarks)
  IN IF Len(rest) >= 3 /\ rest[1] \in CheckBoxes /\ rest[2] = WS
     THEN Match(rest[1], SubSeq(rest, 3, Len(rest)))
     ELSE NoMatch

\* /^\s*[-*+]\s+(.+)$/
bulletRegex(trimmed) ==
  IF AfterMark(trimmed, BulletMarks) # <<>> THEN Match("", AfterMark(trimmed, BulletMarks))
  ELSE NoMatch

\* /^\s*\d+[.)]\s+(.+)$/
orderedRegex(trimmed) ==
  IF AfterMark(trimmed, Ordinals) # <<>> THEN Match("", AfterMark(trimmed, Ordinals))
  ELSE NoMatch

ClipboardCard(title, checked) == [title |-> title, checked |-> checked]

\* a reading of a line that takes only the lower-case x for checked
parseClipboardLineLowerOnly(line) ==
  LET trimmed == TrimW(line)
      checklist == checklistRegex(trimmed)
  IN IF trimmed = <<>> THEN <<>>
     ELSE IF checklist.ok
     THEN <<ClipboardCard(TrimW(checklist.title), checklist.box = "[x]")>>
     ELSE <<ClipboardCard(trimmed, FALSE)>>

\* the body of the loop of parseClipboardList: the cards pushed for one line
parseClipboardLine(line) ==
  LET trimmed == TrimW(line)
      checklist == checklistRegex(trimmed)
      bullet == bulletRegex(trimmed)
      ordered == orderedRegex(trimmed)
  IN IF trimmed = <<>> THEN <<>>
     ELSE IF checklist.ok
     THEN IF TrimW(checklist.title) # <<>>
          THEN <<ClipboardCard(TrimW(checklist.title), checklist.box \in {"[x]", "[X]"})>>
          ELSE <<>>
     ELSE IF bullet.ok
     THEN IF TrimW(bullet.title) # <<>> THEN <<ClipboardCard(TrimW(bullet.title), FALSE)>>
          ELSE <<>>
     ELSE IF ordered.ok
     THEN IF TrimW(ordered.title) # <<>> THEN <<ClipboardCard(TrimW(ordered.title), FALSE)>>
          ELSE <<>>
     ELSE <<ClipboardCard(trimmed, FALSE)>>

RECURSIVE parseClipboardList(_)
parseClipboardList(lines) ==
  IF lines = <<>> THEN <<>>
  ELSE parseClipboardLine(Head(lines)) \o parseClipboardList(Tail(lines))

\* the lines a clipboard text is made of
ClipLines ==
  {<<>>, <<WS>>,
   <<"-", WS, "[x]", WS, "Done", WS, "item">>,
   <<WS, "*", WS, "[X]", WS, "item", WS>>,
   <<"-", WS, "[ ]", WS, "item">>,
   <<"+", WS, "item">>,
   <<"1.", WS, "item">>,
   <<WS, "2)", WS, "Done", WS>>,
   <<"Done", WS, "item">>,
   <<"-", WS, "[x]">>,
   <<"-", WS, "[x]", "item">>,
   <<"-", "item">>,
   <<"-">>,
   <<"1.">>}

MaxClipLines == 2

ClipTexts == UNION {[1..n -> ClipLines] : n \in 0..MaxClipLines}

\* insertFromClipboard up to the call of parseClipboardList
ParseClipboardList ==
  /\ pasted = NotPasted
  /\ pasted' = parseClipboardList(clipboard)
  /\ UNCHANGED <<storeVars, codecVars, viewData, pendingSavePayload, initialized, saveQueue,
                 carried, writing, clock, clipboard, inFlight, lastRequested>>

InitPaste ==
  /\ EmptyStore
  /\ CodecIdle
  /\ viewData = FileText(PlainFrontmatter, <<BlankLine>>)
  /\ pendingSavePayload = NoPayload
  /\ initialized = FALSE
  /\ saveQueue = Queue(NoPayload, FALSE, FALSE)
  /\ carried = "none"
  /\ writing = FALSE
  /\ clock = NoClock
  /\ inFlight = 0
  /\ lastRequested = NoPayload
  /\ clipboard \in ClipTexts
  /\ pasted = NotPasted

NextPaste == ParseClipboardList

SpecPaste == InitPaste /\ [][NextPaste]_vars

\* the lines that are not blank, in order
NonBlankLines(lines) == FilterSeq(lines, {l \in SeqToSet(lines) : \E i \in DOMAIN l : l[i] # WS})

\* the line without the whitespace at its ends and without its first n tokens and
\* the whitespace after them
Dropping(line, n) == TrimStart(SubSeq(TrimW(line), n + 1, Len(TrimW(line))))

IsChecklistLine(line) ==
  LET t == TrimW(line)
  IN Len(t) >= 5 /\ t[1] \in BulletMarks /\ t[2] = WS /\ t[3] \in CheckBoxes /\ t[4] = WS
IsBulletLine(line) ==
  LET t == TrimW(line) IN Len(t) >= 3 /\ t[1] \in BulletMarks /\ t[2] = WS
IsOrderedLine(line) ==
  LET t == TrimW(line) IN Len(t) >= 3 /\ t[1] \in Ordinals /\ t[2] = WS

\* C27: parseClipboardList returns one entry per line that is not blank, in the
\* order of the lines: a checklist line gives its title, checked for x and X only;
\* a bullet or ordered line gives its title, unchecked; any other line gives the
\* trimmed line, unchecked; no title is empty.
C27_OneEntryPerNonBlankLine ==
  pasted # NotPasted =>
    LET lines == NonBlankLines(clipboard)
    IN  /\ Len(pasted) = Len(lines)
        /\ \A k \in DOMAIN pasted :
             /\ pasted[k].title # <<>>
             /\ pasted[k].title = TrimW(pasted[k].title)
             /\ IF IsChecklistLine(lines[k])
                THEN /\ pasted[k].title = Dropping(lines[k], 3)
                     /\ pasted[k].checked = (TrimW(lines[k])[3] \in {"[x]", "[X]"})
                ELSE /\ ~pasted[k].checked
                     /\ pasted[k].title =
                          IF IsBulletLine(lines[k]) \/ IsOrderedLine(lines[k])
                          THEN Dropping(lines[k], 1)
                          ELSE TrimW(lines[k])

\* a blank line and the line * [X] item were read: one entry, item, checked
C27_UpperCaseCheckedWitness ==
  /\ clipboard = <<(<<WS>>), (<<WS, "*", WS, "[X]", WS, "item", WS>>)>>
  /\ pasted = <<ClipboardCard(<<"item">>, TRUE)>>

\* C28: subscribe calls the new listener once, at once, with the current snapshot;
\* a listener that is not subscribed, because its unsubscribe function was called
\* or because it never subscribed, is called by no step, and a mutation that
\* changes the document still calls every listener that remains subscribed.
C28_UnsubscribedIsNotCalled ==
  [][/\ \A l \in listeners' \ listeners :
          /\ op'.name = "subscribe"
          /\ board' = board
          /\ delivered'[l] = <<getSnapshot(board, filter)>>
     /\ \A l \in ListenerIds \ listeners' : delivered'[l] = <<>>
     /\ op'.name = "unsubscribe" => Cardinality(listeners') = Cardinality(listeners) - 1
     /\ (op'.name \in MutationNames /\ board' # board)
          => \A l \in listeners' : delivered'[l] = <<getSnapshot(board', filter')>>]_vars

\* a card was added while only L2 was subscribed: L2 was called, L1 was not
C28_OnlyRemainingCalledWitness ==
  /\ op = [name |-> "addCard", known |-> TRUE]
  /\ listeners = {"L2"}
  /\ delivered["L2"] = <<getSnapshot(board, filter)>>
  /\ delivered["L1"] = <<>>

----------------------------------------------------------------------------
(* insertCardsAt, the store operation duplicateCard and insertCardsAroundCard call *)

\* a batch put into the column in reverse order
insertCardsAtReversed(b, columnId, index, cards) ==
  LET change(c) ==
        [c EXCEPT !.cards = InsertAt(c.cards, index, [k \in DOMAIN cards |-> cards[Len(cards) + 1 - k]])]
  IN MapColumn(b, columnId, change)

\* the batch is inserted at the index of the column
insertCardsAtOf(b, columnId, index, cards) ==
  LET change(c) == [c EXCEPT !.cards = InsertAt(c.cards, index, cards)]
  IN MapColumn(b, columnId, change)

\* batches of one and two cards the start boards do not hold
AtBatches ==
  LET x == FreshCard(CardIdPool[MaxCards + 1])
      y == FreshCard(CardIdPool[MaxCards + 2])
      z == FreshCard(CardIdPool[MaxCards + 3])
  IN {<<x>>, <<y>>, <<z>>, <<x, y>>, <<y, x>>, <<z, x>>}

\* insertCardsAt(columnId, index, cards) on a column the document holds, at an
\* index of the column, with cards it does not hold
InsertCardsAt(columnId, index, cards) ==
  /\ KnownColumn(board, columnId)
  /\ index \in 0..Len(CardsOfColumn(board, columnId))
  /\ SeqToSet(CardIds(cards)) \cap PresentCardIds(board) = {}
  /\ Mutate(insertCardsAtOf(board, columnId, index, cards), RetNum(Len(cards)))
  /\ UNCHANGED edits
  /\ Called("insertCardsAt", TRUE)

NextInsertAt ==
  \E c \in {"A", "B"}, i \in 0..(MaxCards + 3), xs \in AtBatches :
    InsertCardsAt(c, i, xs) /\ UNCHANGED <<codecVars, viewVars>>

SpecInsertAt == Init /\ [][NextInsertAt]_vars

\* the lane [A, D] of tests/store.test.ts takes [B, C] at index 1
InsertAtExample ==
  LET lane(cards) == Board(<<"Board">>, <<>>, "normal",
                           <<Column("lane", <<"Lane">>, JsNull, cards)>>, <<>>)
      a == MkCard("a", <<"A">>)
      b == MkCard("b", <<"B">>)
      c == MkCard("c", <<"C">>)
      d == MkCard("d", <<"D">>)
  IN insertCardsAtOf(lane(<<a, d>>), "lane", 1, <<b, c>>) = lane(<<a, b, c, d>>)

\* C29: insertCardsAt(columnId, index, cards) puts the batch, in batch order and
\* unbroken, at the index of the column, keeps the cards the column held in their
\* order, leaves the other columns alone and returns the number of cards inserted.
C29_BatchGoesToIndex ==
  /\ []InsertAtExample
  /\ [][op'.name = "insertCardsAt" =>
          \A c \in {"A", "B"}, i \in 0..(MaxCards + 3), xs \in AtBatches :
            InsertCardsAt(c, i, xs) =>
              LET old == CardsNamed(board, c)
                  new == CardsNamed(board', c)
                  batchIds == SeqToSet(CardIds(xs))
              IN  /\ ret' = RetNum(Len(xs))
                  /\ Len(new) = Len(old) + Len(xs)
                  /\ \A k \in DOMAIN xs : new[i + k] = xs[k]
                  /\ FilterSeq(new, {x \in SeqToSet(new) : x.id \notin batchIds}) = old
                  /\ \A j \in DOMAIN board.columns :
                       board.columns[j].id # c => board'.columns[j] = board.columns[j]
                  /\ board'.archive = board.archive]_vars

\* a batch of two went between the two cards of column A
C29_BatchInMiddleWitness ==
  /\ op = [name |-> "insertCardsAt", known |-> TRUE]
  /\ ret = RetNum(2)
  /\ CardIds(CardsOfColumn(board, "A")) =
       <<CardIdPool[1], CardIdPool[MaxCards + 1], CardIdPool[MaxCards + 2], CardIdPool[2]>>

----------------------------------------------------------------------------
(* The SaveQueue with its two timers and the time between the requests *)

\* the delays, in ticks: saveDebounceMs and saveMaxDelayMs
DebounceTicks == 2
MaxDelayTicks == 4

\* the payloads schedulePersist hands to request
QueuePayloads == {serializeBoardMarkdown(StartBoard(n)) : n \in 0..1}

\* a request that sets both timers again
armTimersBoth(q, c) == [debounceHandle |-> DebounceTicks, maxDelayHandle |-> MaxDelayTicks]

\* the timers after request: the debounce timer is cleared and set again, the
\* max-delay timer is set only when its handle is null
armTimers(q, c) ==
  [debounceHandle |-> DebounceTicks,
   maxDelayHandle |-> IF q.maxDelayHandle THEN c.maxDelayHandle ELSE MaxDelayTicks]

\* what the SaveQueue and its flush function leave alone
QueueFrame == UNCHANGED <<storeVars, codecVars, initialized, carried, clipboard, pasted>>

\* a flush() that looks only at the pending payload
flushSkipsWhenEmpty(q, w) == q.pendingPayload = NoPayload

\* the guard of flush(): it returns at once while a call of the flush function is
\* awaited or when nothing is pending
flushSkips(q, w) == w \/ flushReturnsEarly(q)

\* flush() past its guard: the payload is taken, the timers are cleared, writing is
\* set and the flush function of the view is called with the payload; settled
\* counts the call of the flush function that has just returned, if one has
FlushStarts(settled) ==
  /\ pendingSavePayload' = saveQueue.pendingPayload
  /\ viewData' = saveQueue.pendingPayload
  /\ saveQueue' = flushed(saveQueue)
  /\ clock' = NoClock
  /\ writing' = TRUE
  /\ inFlight' = inFlight - settled + 1

\* SaveQueue.request(payload)
QueueRequest(payload) ==
  /\ saveQueue' = request(saveQueue, payload)
  /\ clock' = armTimers(saveQueue, clock)
  /\ lastRequested' = payload
  /\ UNCHANGED <<writing, viewData, pendingSavePayload, inFlight>>
  /\ QueueFrame

\* one tick passes: no timer is due, every running timer comes one tick closer
QueueTick ==
  /\ \E h \in DOMAIN clock : clock[h] > 0
  /\ \A h \in DOMAIN clock : clock[h] # 0
  /\ clock' = [h \in DOMAIN clock |-> IF clock[h] > 0 THEN clock[h] - 1 ELSE clock[h]]
  /\ UNCHANGED <<saveQueue, writing, viewData, pendingSavePayload, inFlight, lastRequested>>
  /\ QueueFrame

\* a timer that is due fires and calls flush(), which returns at once while a
\* write is under way or nothing is pending; the handle of the timer stays set
QueueTimerFires(handle) ==
  /\ clock[handle] = 0
  /\ IF flushSkips(saveQueue, writing)
     THEN /\ clock' = [clock EXCEPT ![handle] = NotSet]
          /\ UNCHANGED <<saveQueue, writing, viewData, pendingSavePayload, inFlight>>
     ELSE FlushStarts(0)
  /\ UNCHANGED lastRequested
  /\ QueueFrame

\* the flush function returns: writing is reset, and flush() runs again when a
\* payload came in meanwhile
QueueWriteEnds ==
  /\ writing
  /\ IF saveQueue.pendingPayload # NoPayload
     THEN FlushStarts(1)
     ELSE /\ writing' = FALSE
          /\ inFlight' = inFlight - 1
          /\ UNCHANGED <<saveQueue, clock, viewData, pendingSavePayload>>
  /\ UNCHANGED lastRequested
  /\ QueueFrame

NextQueue ==
  \/ \E payload \in QueuePayloads : QueueRequest(payload)
  \/ QueueTick
  \/ \E handle \in DOMAIN clock : QueueTimerFires(handle)
  \/ QueueWriteEnds

SpecQueue == InitView /\ [][NextQueue]_vars

\* time passes, a timer that is due fires, and a write ends
SpecQueueFair ==
  /\ SpecQueue
  /\ WF_vars(QueueTick)
  /\ WF_vars(QueueTimerFires("debounceHandle"))
  /\ WF_vars(QueueTimerFires("maxDelayHandle"))
  /\ WF_vars(QueueWriteEnds)

----------------------------------------------------------------------------
(* moveCard and moveColumn on a board of three columns *)

MoveColumnIds == {"A", "B", "C"}
MoveCardIds == {CardIdPool[k] : k \in 1..(MaxCards + 1)}

\* column A holds MaxCards cards, B one, C none; one card is archived
MoveBoard ==
  Board(<<"Board">>, <<"about">>, "compact",
        <<Column("A", <<"Todo">>, JsNum(MaxCards), [k \in 1..MaxCards |-> FreshCard(CardIdPool[k])]),
          Column("B", <<"Doing">>, JsNull, <<FreshCard(CardIdPool[MaxCards + 1])>>),
          Column("C", <<"Done">>, JsNull, <<>>)>>,
        <<FreshCard(CardIdPool[MaxCards + 2])>>)

MoveIndexArgs == (0 - 1)..(MaxCards + 2)

\* every combination of present ids with every index, and the calls that name an
\* absent column or card
MoveArgs ==
  {a \in (MoveColumnIds \cup {"Z"}) \X (MoveCardIds \cup {"zz"})
           \X (MoveColumnIds \cup {"Z"}) \X MoveIndexArgs :
     (a[1] = "Z" \/ a[2] = "zz" \/ a[3] = "Z") => a[4] = 0}

InitMove ==
  /\ board = cloneBoard(MoveBoard)
  /\ filter = EmptyFilter
  /\ listeners = {}
  /\ delivered = NoCalls
  /\ ret = RetVoid
  /\ edits = 0
  /\ op = [name |-> "constructor", known |-> TRUE]
  /\ CodecIdle
  /\ ViewIdle
NextMove ==
  \/ \E a \in MoveArgs :
       MoveCard(a[1], a[2], a[3], a[4]) /\ UNCHANGED <<codecVars, viewVars>>
  \/ \E c \in MoveColumnIds \cup {"Z"}, i \in MoveIndexArgs :
       MoveColumn(c, i) /\ UNCHANGED <<codecVars, viewVars>>
SpecMove == InitMove /\ [][NextMove]_vars

\* the 0-based index moveCard inserts at: targetIndex brought into [0, length of the
\* target list after the removal], one less when the card left an earlier place of
\* the same list
ExpectedInsertIndex(sameColumn, removedAt, targetLength, targetIndex) ==
  LET clamped == IF targetIndex < 0 THEN 0
                 ELSE IF targetIndex > targetLength THEN targetLength ELSE targetIndex
  IN IF sameColumn /\ removedAt < clamped THEN clamped - 1 ELSE clamped

----------------------------------------------------------------------------
(* Listeners that call the store from inside a notification *)

\* the order in which the Set of listeners iterates: the order of subscription.
\* In these runs the listeners subscribe in the order of this sequence.
ListenerOrder == <<"L1", "L2">>
InOrder(ls) == FilterSeq(ListenerOrder, ls)

\* What a listener does with a snapshot. L1 archives the cards of column B when the
\* snapshot shows cards in B; L2 moves the first card of column A to the top of B
\* when the snapshot shows more than one card in A.
NoReaction == [name |-> "none", cardId |-> NULL]
Reaction(l, snapshot) ==
  IF l = "L1" /\ Len(CardsOfColumn(snapshot.board, "B")) > 0
  THEN [name |-> "archiveColumnCards", cardId |-> NULL]
  ELSE IF l = "L2" /\ Len(CardsOfColumn(snapshot.board, "A")) > 1
  THEN [name |-> "moveCard", cardId |-> CardsOfColumn(snapshot.board, "A")[1].id]
  ELSE NoReaction

\* the store call of a reaction on the document b: does it reach emit(), and the
\* document it assigns
ReactionEmits(b, r) ==
  CASE r.name = "archiveColumnCards" -> archiveColumnCardsRet(b, "B") # 0
    [] r.name = "moveCard" -> moveCardEmits(b, "A", r.cardId, "B")
    [] OTHER -> FALSE
ReactionBoard(b, r) ==
  CASE r.name = "archiveColumnCards" -> archiveColumnCardsOf(b, "B")
    [] r.name = "moveCard" -> moveCardOf(b, "A", r.cardId, "B", 0)
    [] OTHER -> b

Run(b, dl) == [board |-> b, delivered |-> dl]

\* an emit() during which the calls of the store change the document but notify nobody
emitCoalescing(b, f, ls) ==
  LET snapshot == getSnapshot(b, f)
      RECURSIVE loop(_, _)
      loop(rest, doc) ==
        IF rest = <<>> THEN doc
        ELSE LET r == Reaction(Head(rest), snapshot)
             IN loop(Tail(rest), IF ReactionEmits(doc, r) THEN ReactionBoard(doc, r) ELSE doc)
  IN Run(loop(InOrder(ls), b), emit(b, f, ls))

\* The for-loops of the emit() calls that have not returned, innermost first: each
\* frame holds the snapshot its emit() computed and the listeners it has still to
\* call. The head listener of the innermost frame is called with that snapshot; a
\* store call it makes assigns the document and runs a further emit() to its end.
RECURSIVE emitRun(_, _, _, _, _)
emitRun(b, f, ls, frames, dl) ==
  IF frames = <<>> THEN Run(b, dl)
  ELSE
    LET top == Head(frames)
    IN IF top.rest = <<>> THEN emitRun(b, f, ls, Tail(frames), dl)
       ELSE
         LET l == Head(top.rest)
             later == <<[top EXCEPT !.rest = Tail(top.rest)]>> \o Tail(frames)
             called == [dl EXCEPT ![l] = Append(@, top.snapshot)]
             r == Reaction(l, top.snapshot)
         IN IF ReactionEmits(b, r)
            THEN emitRun(ReactionBoard(b, r), f, ls,
                         <<[snapshot |-> getSnapshot(ReactionBoard(b, r), f),
                            rest |-> InOrder(ls)]>> \o later,
                         called)
            ELSE emitRun(b, f, ls, later, called)

\* emit() on the document b: the document and the calls of each listener, in
\* order, when it has returned
emitReentrant(b, f, ls) ==
  emitRun(b, f, ls, <<[snapshot |-> getSnapshot(b, f), rest |-> InOrder(ls)]>>, NoCalls)

\* the final part of a mutation whose listeners may call the store
MutateReentrant(nextBoard, value) ==
  /\ board' = emitReentrant(nextBoard, filter, listeners).board
  /\ delivered' = emitReentrant(nextBoard, filter, listeners).delivered
  /\ ret' = value
  /\ UNCHANGED <<filter, listeners>>

\* subscribe(listener): the listener joins the set and is called with a snapshot
ReSubscribe(l) ==
  /\ \A x \in listeners : \E i, j \in DOMAIN ListenerOrder :
       ListenerOrder[i] = x /\ ListenerOrder[j] = l /\ i < j
  /\ listeners' = listeners \cup {l}
  /\ LET run == emitRun(board, filter, listeners \cup {l},
                        <<[snapshot |-> getSnapshot(board, filter), rest |-> <<l>>]>>, NoCalls)
     IN board' = run.board /\ delivered' = run.delivered
  /\ ret' = RetVoid
  /\ UNCHANGED <<filter, edits>>
  /\ Called("subscribe", TRUE)

ReAddCard(card, placement) ==
  /\ AreFresh(board, <<card>>)
  /\ MutateReentrant(addCardOf(board, "A", card, placement), RetVoid)
  /\ UNCHANGED edits
  /\ Called("addCard", TRUE)

ReMoveCard(sourceColumnId, cardId, targetColumnId, targetIndex) ==
  /\ IF moveCardEmits(board, sourceColumnId, cardId, targetColumnId)
     THEN MutateReentrant(moveCardOf(board, sourceColumnId, cardId, targetColumnId, targetIndex),
                          RetVoid)
     ELSE EarlyReturn(RetVoid)
  /\ UNCHANGED edits
  /\ Called("moveCard", KnownCard(board, sourceColumnId, cardId)
                         /\ KnownColumn(board, targetColumnId))

ReentrantCards == {FreshCard(id) : id \in KnownCardIds}

InitReentrant ==
  /\ board \in {cloneBoard(b) : b \in StartBoards}
  /\ filter = EmptyFilter
  /\ listeners = {}
  /\ delivered = NoCalls
  /\ ret = RetVoid
  /\ edits = 0
  /\ op = [name |-> "constructor", known |-> TRUE]
  /\ CodecIdle
  /\ ViewIdle
NextReentrant ==
  \/ \E l \in ListenerIds : ReSubscribe(l) /\ UNCHANGED <<codecVars, viewVars>>
  \/ \E card \in ReentrantCards, placement \in Placements :
       ReAddCard(card, placement) /\ UNCHANGED <<codecVars, viewVars>>
  \/ \E a \in MoveCardArgs :
       ReMoveCard(a[1], a[2], a[3], a[4]) /\ UNCHANGED <<codecVars, viewVars>>
SpecReentrant == InitReentrant /\ [][NextReentrant]_vars

\* the listeners, in order, that answer the snapshot of the document b with a store
\* call that reaches emit()
Reacting(b, f, ls) ==
  FilterSeq(ListenerOrder, {l \in ls : ReactionEmits(b, Reaction(l, getSnapshot(b, f)))})

\* The outer mutation M1 assigned the document first. When a listener answers its
\* snapshot with a mutation M2, every listener was called with the snapshot of M1
\* and with the snapshot of M2; and when M2 is the only mutation of the listeners,
\* the document is M2 applied to the document of M1.
NestedIsApplied(first) ==
  LET reacting == Reacting(first, filter, listeners)
      second == ReactionBoard(first, Reaction(Head(reacting), getSnapshot(first, filter)))
  IN reacting # <<>> =>
       /\ second # first
       /\ \A l \in listeners :
            /\ \E i \in DOMAIN delivered'[l] : delivered'[l][i] = getSnapshot(first, filter)
            /\ \E i \in DOMAIN delivered'[l] : delivered'[l][i] = getSnapshot(second, filter)
       /\ (Len(reacting) = 1 /\ Reacting(second, filter, listeners) = <<>>) => board' = second

\* C32: a store mutation a listener calls from inside a notification is applied and
\* notified to all subscribers before the outer call returns, and is not coalesced
\* or dropped: every subscriber receives a snapshot for the outer mutation and one
\* for the inner, and the document holds the effects of both.
C32_NestedMutationIsAppliedAndNotified ==
  [][/\ \A card \in ReentrantCards, placement \in Placements :
          ReAddCard(card, placement) => NestedIsApplied(addCardOf(board, "A", card, placement))
     /\ \A a \in MoveCardArgs :
          (ReMoveCard(a[1], a[2], a[3], a[4]) /\ op'.known)
            => NestedIsApplied(moveCardOf(board, a[1], a[2], a[3], a[4]))]_vars

\* addCard made L2 move a card to column B, which made L1 archive it: both
\* listeners were called three times
C32_ThreeSnapshotsWitness ==
  /\ op.name = "addCard"
  /\ listeners = ListenerIds
  /\ \A l \in ListenerIds : Len(delivered[l]) = 3
  /\ Len(board.archive) > 0

\* C34: after a mutation call has returned, the snapshot each subscribed listener
\* was called with last shows the store's document and filter.
C34_LatestSnapshotIsCurrent ==
  op.name \in MutationNames =>
    \A l \in listeners :
      delivered[l] # <<>> => delivered[l][Len(delivered[l])] = getSnapshot(board, filter)

----------------------------------------------------------------------------
(* Continuation lines *)

\* the indexes of the card lines of a body
CardLinesOf(body) == {i \in DOMAIN body : MatchesCardRegex(body[i])}

\* the continuation lines of the card line i of body, each without one indent
ContinuationOf(body, i) == TakeContinuation(SubSeq(body, i + 1, Len(body)))

\* the index of the first due line of lines, 0 when there is none
FirstDueLine(lines) ==
  IF \E i \in DOMAIN lines : lines[i].k = "due"
  THEN CHOOSE i \in DOMAIN lines : lines[i].k = "due" /\ \A j \in 1..(i - 1) : lines[j].k # "due"
  ELSE 0

\* lines without its anchor lines and without its first due line, the others in place
KeptLines(lines) ==
  LET keep == {i \in DOMAIN lines : lines[i].k # "anchor" /\ i # FirstDueLine(lines)}
      order == FilterSeq([i \in DOMAIN lines |-> i], keep)
  IN [k \in DOMAIN order |-> lines[order[k]]]

\* C33: of a card's continuation lines only the first line matching due:: YYYY-MM-DD
\* sets the due date and is left out of the description; every later due line is
\* kept as it is, in place, as description text; bare ^anchor lines are left out.
\* The parsed card is compared on bodies without archive markers, where the lines
\* under the card line are the card's continuation lines.
C33_FirstDueLineSetsTheDate ==
  (parsed.ok /\ written = <<>>) =>
    /\ \A i \in CardLinesOf(text.body) :
         LET lines == ContinuationOf(text.body, i)
             result == normalizeDescription(lines)
         IN /\ result.dueDate = IF FirstDueLine(lines) = 0 THEN NULL
                                ELSE lines[FirstDueLine(lines)].id
            /\ result.description = TrimEndStr(JoinLines(KeptLines(PopBlankLines(lines))))
            /\ \A k \in DOMAIN result.description : result.description[k].k # "anchor"
    /\ (/\ Cardinality(CardLinesOf(text.body)) = 1
        /\ Len(AllCards(parsed.board)) = 1
        /\ \A j \in DOMAIN text.body : text.body[j].k \notin {"astart", "aend"}) =>
         LET lines == ContinuationOf(text.body, CHOOSE i \in CardLinesOf(text.body) : TRUE)
             card == AllCards(parsed.board)[1]
         IN /\ card.description = TrimEndStr(JoinLines(KeptLines(PopBlankLines(lines))))
            /\ card.dueDate = IF FirstDueLine(lines) = 0 THEN NULL
                              ELSE lines[FirstDueLine(lines)].id

\* a parsed card whose lines held three due lines and an anchor: the date is the
\* first one, the two later due lines stand in the description after the note
C33_LaterDueLinesKeptWitness ==
  /\ parsed.ok
  /\ written = <<>>
  /\ Len(AllCards(parsed.board)) = 1
  /\ AllCards(parsed.board)[1].dueDate = "2026-01-01"
  /\ AllCards(parsed.board)[1].description
       = <<TextLine(0, <<"note", "#b">>), DueLine(1, "2026-02-02"), DueLine(0, "2026-01-01")>>

----------------------------------------------------------------------------
(* The SaveQueue with flushNow, clearPending and a flush function that fails *)

\* flushNow(): flush() at once
QueueFlushNow ==
  /\ IF flushSkips(saveQueue, writing)
     THEN UNCHANGED <<saveQueue, clock, writing, viewData, pendingSavePayload, inFlight>>
     ELSE FlushStarts(0)
  /\ UNCHANGED lastRequested
  /\ QueueFrame

\* clearPending(): the payload and both timers are dropped
QueueClearPending ==
  /\ saveQueue' = clearPending(saveQueue)
  /\ clock' = NoClock
  /\ UNCHANGED <<writing, viewData, pendingSavePayload, inFlight, lastRequested>>
  /\ QueueFrame

\* the flush function throws or its promise is rejected: writing is reset in the
\* finally block and flush() ends with the error, a pending payload stays pending
QueueWriteFails ==
  /\ writing
  /\ writing' = FALSE
  /\ inFlight' = inFlight - 1
  /\ UNCHANGED <<saveQueue, clock, viewData, pendingSavePayload, lastRequested>>
  /\ QueueFrame

NextQueueAll ==
  \/ NextQueue
  \/ QueueFlushNow
  \/ QueueClearPending
  \/ QueueWriteFails
SpecQueueAll == InitView /\ [][NextQueueAll]_vars

\* C35: the SaveQueue never runs two calls of the flush function at the same time:
\* whatever the order of request, flushNow, clearPending, the two timers and the
\* ends and failures of the flush function, at most one call has not settled, and
\* a call starts only when none is under way.
C35_OneFlushAtATime ==
  /\ [](inFlight <= 1)
  /\ [][inFlight' > inFlight => inFlight = 0]_vars

\* a call of the flush function is awaited while a later payload is pending and
\* the max-delay timer is due
C35_DueWhileWritingWitness ==
  /\ inFlight = 1
  /\ writing
  /\ saveQueue.pendingPayload # NoPayload
  /\ clock.maxDelayHandle = 0

\* a step in which flush() takes the pending payload and calls the flush function
FlushTakesPayload ==
  saveQueue.pendingPayload # NoPayload /\ saveQueue'.pendingPayload = NoPayload

\* C36: the SaveQueue writes the latest payload last. Every call of the flush
\* function is given the payload of the most recent request, and when the calls of
\* request stop (no clearPending, no failing flush function, due timers fire) the
\* last payload requested is passed to the flush function and none after it.
C36_LatestPayloadIsWrittenLast ==
  /\ [][FlushTakesPayload
          => (pendingSavePayload' = lastRequested /\ viewData' = lastRequested)]_vars
  /\ \/ []<><<\E payload \in QueuePayloads : QueueRequest(payload)>>_vars
     \/ <>[](pendingSavePayload = lastRequested /\ saveQueue.pendingPayload = NoPayload)

\* one payload is being written while a later, different one is pending
C36_NewerPendingWhileWritingWitness ==
  /\ writing
  /\ pendingSavePayload # NoPayload
  /\ saveQueue.pendingPayload \notin {NoPayload, pendingSavePayload}
  /\ lastRequested = saveQueue.pendingPayload

----------------------------------------------------------------------------
(* The view receives the text it wrote *)

\* C37: when setViewData is called with the payload this view flushed last while a
\* later mutation of the store waits in the SaveQueue, the store keeps the document
\* with the later mutation and the queued save is not cancelled.
C37_OwnWriteKeepsLaterEdits ==
  [][(/\ initialized
      /\ pendingSavePayload # NoPayload
      /\ saveQueue.pendingPayload # NoPayload
      /\ SetViewData(pendingSavePayload))
       => (board' = board /\ saveQueue' = saveQueue)]_vars

----------------------------------------------------------------------------
(* What moveCard and moveColumn keep *)

\* how often x occurs in the sequence s
CountIn(s, x) == Cardinality({i \in DOMAIN s : s[i] = x})
SameMultiset(s, t) ==
  /\ Len(s) = Len(t)
  /\ \A x \in SeqToSet(s) \cup SeqToSet(t) : CountIn(s, x) = CountIn(t, x)

\* the columns of a document with the k-th card of the i-th column taken out
WithoutCard(columns, i, k) == [columns EXCEPT ![i].cards = RemoveAt(columns[i].cards, k)]

\* after is before with at most one card at another place: taking one card out of
\* both leaves the same columns, with the same cards in the same order
OneCardMoved(before, after) ==
  \/ after = before
  \/ \E i \in DOMAIN before, j \in DOMAIN after :
       \E k \in DOMAIN before[i].cards, m \in DOMAIN after[j].cards :
         /\ before[i].cards[k] = after[j].cards[m]
         /\ WithoutCard(before, i, k) = WithoutCard(after, j, m)

\* after is before with at most one column at another place
OneColumnMoved(before, after) ==
  \/ after = before
  \/ \E i \in DOMAIN before, j \in DOMAIN after :
       before[i] = after[j] /\ RemoveAt(before, i) = RemoveAt(after, j)

\* C38: moveCard and moveColumn never create, duplicate or lose a card or a column:
\* after a call the multiset of the card ids of the columns and the multiset of the
\* column ids are as before, the archive and the metadata are unchanged, at most
\* one card (for moveColumn: one column) has changed its place, and all other cards
\* keep their column and their order.
C38_MovesKeepCardsAndColumns ==
  [][op'.name \in {"moveCard", "moveColumn"} =>
       /\ SameMultiset(CardIds(FlattenCards(board'.columns)), CardIds(FlattenCards(board.columns)))
       /\ SameMultiset(ColumnIds(board'), ColumnIds(board))
       /\ [board' EXCEPT !.columns = <<>>] = [board EXCEPT !.columns = <<>>]
       /\ op'.name = "moveCard" => OneCardMoved(board.columns, board'.columns)
       /\ op'.name = "moveColumn" => OneColumnMoved(board.columns, board'.columns)]_vars

\* a card was moved into the middle of the column that started empty, and the
\* columns no longer stand in their first order
C38_MovedAcrossWitness ==
  /\ op = [name |-> "moveCard", known |-> TRUE]
  /\ Len(CardsOfColumn(board, "C")) = MaxCards + 1
  /\ CardsOfColumn(board, "C")[2].id = CardIdPool[1]
  /\ ColumnIds(board) # <<"A", "B", "C">>

----------------------------------------------------------------------------
(* Card drops on a board of three columns *)

\* the file of the board of three columns
DropText == serializeBoardMarkdown(MoveBoard)

InitDrop == InitView
NextDrop ==
  \/ SetViewData(DropText)
  \/ \E s \in MoveColumnIds, x \in MoveCardIds, t \in MoveColumnIds \cup {"Z"},
        y \in MoveCardIds \cup {NULL, "zz"} : HandleCardDrop(s, x, t, y)
SpecDrop == InitDrop /\ [][NextDrop]_vars

\* C39: a dragged card dropped before a target card that the target column holds
\* and that is not the dragged card stands immediately before the target card in
\* the target column afterwards, whether it came from above or below the target in
\* the same column or from another column.
C39_DroppedCardStandsBeforeTarget ==
  [][op'.name = "moveCard" =>
       \A s \in MoveColumnIds, x \in MoveCardIds, t \in MoveColumnIds, y \in MoveCardIds :
         (/\ y # x
          /\ KnownCard(board, s, x)
          /\ KnownCard(board, t, y)
          /\ HandleCardDrop(s, x, t, y))
           => LET after == CardsOfColumn(board', t)
              IN /\ CardIndex(after, x) # 0
                 /\ CardIndex(after, y) = CardIndex(after, x) + 1
                 /\ Len(after) = Len(CardsOfColumn(board, t)) + (IF s = t THEN 0 ELSE 1)
                 /\ saveQueue'.pendingPayload = serializeBoardMarkdown(board')]_vars

\* the first card of column A was dropped before the last of three cards of A: it
\* came from above the target and stands between the other two
C39_FromAboveWitness ==
  /\ op = [name |-> "moveCard", known |-> TRUE]
  /\ CardIds(CardsOfColumn(board, "A")) = <<CardIdPool[2], CardIdPool[1], CardIdPool[MaxCards + 1]>>
  /\ saveQueue.pendingPayload = serializeBoardMarkdown(board)

----------------------------------------------------------------------------
(* The card editor, and saving and reloading *)

\* what the card editor returns on submit: a trimmed title that is not empty, the
\* text of the description field without trailing whitespace, a due date that
\* normalizeDueDate accepts or null, and the checked state
EditorResult(title, description, dueDate, checked) ==
  [title |-> title, description |-> description, dueDate |-> dueDate, checked |-> checked]

EditorResults ==
  {EditorResult(<<"Fix", "#A">>, <<TextLine(0, <<"note", "#b">>)>>, "2026-01-01", TRUE),
   EditorResult(<<"fix">>, <<>>, NULL, FALSE),
   EditorResult(<<"fix">>, <<TextLine(0, <<"note">>), DueLine(0, "2026-02-02")>>, NULL, FALSE)}

\* updateCard with the updater of editCard, which takes the four fields of the result
editCardOf(b, columnId, cardId, result) ==
  LET change(c) ==
        [c EXCEPT !.cards = [k \in DOMAIN c.cards |->
           IF c.cards[k].id # cardId THEN c.cards[k]
           ELSE normalizeCard([id |-> c.cards[k].id,
                               title |-> result.title,
                               description |-> result.description,
                               checked |-> result.checked,
                               dueDate |-> result.dueDate])]]
  IN MapColumn(b, columnId, change)

\* editCard: the card is looked up, the editor is submitted, the store updates the
\* card and the document is handed to the SaveQueue
EditCard(columnId, cardId, result) ==
  /\ initialized
  /\ KnownCard(board, columnId, cardId)
  /\ Rewrites(editCardOf(board, columnId, cardId, result))
  /\ Mutate(editCardOf(board, columnId, cardId, result), RetVoid)
  /\ Called("updateCard", TRUE)
  /\ schedulePersist(board')
  /\ UNCHANGED <<viewData, pendingSavePayload, initialized, codecVars, sideVars>>

NextEditor ==
  \/ NextDrop
  \/ \E c \in MoveColumnIds, x \in MoveCardIds, result \in EditorResults : EditCard(c, x, result)
SpecEditor == InitDrop /\ [][NextEditor]_vars

\* the fields of a column and of a card that the file stores
StoredColumn(c) ==
  [id |-> c.id, title |-> c.title, wipLimit |-> c.wipLimit,
   cards |-> [k \in DOMAIN c.cards |-> CardInput(c.cards[k])]]
StoredBoard(b) ==
  [columns |-> [i \in DOMAIN b.columns |-> StoredColumn(b.columns[i])],
   archive |-> [k \in DOMAIN b.archive |-> CardInput(b.archive[k])]]

\* C40: saving and reloading keeps the board: parseBoardMarkdown(store.toMarkdown())
\* has the same columns in the same order with the same id, title and wipLimit and,
\* in each column and in the archive, the same cards in the same order with the
\* same id, title, description, checked state and dueDate.
C40_SaveAndReloadKeepsBoard ==
  initialized =>
    LET again == parseBoardMarkdown(serializeBoardMarkdown(board), gen)
    IN again.ok /\ StoredBoard(again.board) = StoredBoard(board)

====
